---- MODULE Spec2Model ----
(***************************************************************************)
(* Physics engine of the D flip-flop simulator (src/src/physics.ts):       *)
(* Signal.update and DFlipFlop.process, and the worker's SimulationEngine  *)
(* that steps them (src/src/simulation.worker.ts).                         *)
(*                                                                         *)
(* Voltages are fixed-point integers, one unit = 0.05 V (1.0 V = 20).      *)
(* A smoothing factor or ratio is a percentage (0.4 = 40).  A Gaussian     *)
(* deviate is a whole number of standard deviations; a noise level is in   *)
(* hundredths of a volt (0.08 V = 8), five to a voltage unit.  Products    *)
(* are rounded to the nearest unit, as floating point rounds to the        *)
(* nearest representable number.                                           *)
(*                                                                         *)
(* Time is counted in sixtieths of a second (Second = 60) and the clock    *)
(* phase in units of 2 pi / 3120, about 0.002 rad, so that clockSpeedFactor *)
(* is one phase unit and the phase advance of a tick is an exact integer.  *)
(***************************************************************************)
EXTENDS Integers, Sequences, FiniteSets, TLC

VARIABLES
    dff,          \* the DFlipFlop under test: [qSignal, lastClkState]
    sig,          \* a free-standing Signal
    call,         \* the last call made: its arguments and what it observed
    lastOutside,  \* history: side of the last non-reset clock sample outside the dead zone
    lastSampled,  \* history: <<v>> once an edge sampled a definite D = v, <<>> otherwise
    resetRun,     \* history: the run of reset calls in progress or just ended
    twin,         \* a second engine, given the same ticks and messages as engine
    sampledUndefined, \* history: an edge of either engine sampled D in the undefined zone
    render,       \* the worker's renderer, its INIT handler and the messages about them
    app,          \* the main thread's localTargetLogicD, and what it sent to the worker
    engine,       \* the worker's SimulationEngine
    step,         \* the stepPhysics call in progress: its dt and what it observed
    rawPhase,     \* history: the clock phase accumulated without the wrap, modulo 2 pi
    inbox,        \* messages posted to the worker and not yet handled, oldest first
    posted,       \* number of messages the main thread has posted
    frames,       \* number of animation frames the worker has run
    buf,          \* a free-standing WaveformBuffer
    pushed,       \* history: what buf was last filled with and the samples pushed since
    mainSpecs,    \* the main thread's VoltageSpecs
    form          \* the settings form: its fields, message and save button

vars == <<dff, sig, call, lastOutside, lastSampled, resetRun, engine, step, rawPhase,
          inbox, posted, frames, buf, pushed, mainSpecs, form, twin, sampledUndefined,
          render, app>>

physicsVars == <<dff, sig, call, lastOutside, lastSampled, resetRun>>

workerVars == <<inbox, posted, frames>>

engineVars == <<engine, step, rawPhase, workerVars>>

mainVars == <<mainSpecs, form>>

bufferVars == <<buf, pushed>>

twinVars == <<twin, sampledUndefined>>

pageVars == <<render, app>>

\* Largest Gaussian deviate drawn, in standard deviations.
MaxDeviate == 3

\* log2 of the length of the engine's waveform buffer (2048 = 2^11 in the
\* source): the engine here keeps a history of 2^BufferBits samples
BufferBits == 0

\* The deviates one Marsaglia draw may produce.
Deviates == {-MaxDeviate, 0, MaxDeviate}

----------------------------------------------------------------------------
(* constants.ts *)

VoltageSpecs ==
    [ logicHighMin |-> 20,
      logicLowMax |-> 12,
      outputHighMin |-> 36,
      outputHighMax |-> 40,
      outputLowMax |-> 4,
      systemMax |-> 50,
      clampMin |-> -10,
      smoothingFactor |-> 20,
      outputSmoothingFactor |-> 40 ]

Simulation ==
    [ maxNoiseLevel |-> 80,
      clockSpeedFactor |-> 1,
      defaultSpeed |-> 30,
      defaultNoise |-> 10,
      baseFrameRate |-> 60,
      bufferLength |-> 2^BufferBits,
      outputNoiseRatio |-> 50 ]

\* one second, in time units
Second == 60

\* Math.PI * 2, in phase units
TwoPi == 3120

----------------------------------------------------------------------------
(* Signal *)

\* the absent value of _noiseCache (null) is the empty sequence
NoCache == << >>

\* x / d rounded to the nearest integer, halves away from zero
Round(x, d) ==
    IF x >= 0 THEN (2 * x + d) \div (2 * d) ELSE -((2 * (-x) + d) \div (2 * d))

\* x * factor for a percentage factor
Scale(x, factor) == Round(x * factor, 100)

\* new Signal(baseHigh, baseLow, smoothingFactor)
NewSignal(baseHigh, baseLow, smoothingFactor) ==
    [ currentValue |-> baseLow,
      targetLogic |-> 0,
      noiseLevel |-> Scale(Simulation.defaultNoise, Simulation.maxNoiseLevel),
      noiseCache |-> NoCache,
      baseHigh |-> baseHigh,
      baseLow |-> baseLow,
      smoothingFactor |-> smoothingFactor ]

\* step 2 of update: a fresh pair (n1, n2) when the cache is empty, else the cached deviate
GaussianNoise(noiseCache, n1, n2) ==
    IF noiseCache = NoCache
    THEN [noise |-> n1, cache |-> <<n2>>]
    ELSE [noise |-> noiseCache[1], cache |-> NoCache]

\* the clamp with the upper limit forgotten
ClampNoUpper(v, specs) ==
    IF v < specs.clampMin THEN specs.clampMin ELSE v

\* step 5 of update: Math.max(clampMin, Math.min(systemMax, v))
Clamp(v, specs) ==
    LET lower == IF specs.systemMax < v THEN specs.systemMax ELSE v
    IN  IF specs.clampMin > lower THEN specs.clampMin ELSE lower

\* the deviate added at the default noise level whatever noiseLevel says
UpdateNoiseUnscaled(s, n1, n2, specs) ==
    LET targetVoltage == IF s.targetLogic = 1 THEN s.baseHigh ELSE s.baseLow
        g == GaussianNoise(s.noiseCache, n1, n2)
        noisyVoltage ==
            targetVoltage
              + Round(g.noise * Scale(Simulation.defaultNoise,
                                      Simulation.maxNoiseLevel), 5)
        filtered == s.currentValue
                      + Scale(noisyVoltage - s.currentValue, s.smoothingFactor)
    IN  [s EXCEPT !.currentValue = Clamp(filtered, specs),
                  !.noiseCache = g.cache]

\* the filter stepping past the noisy voltage instead of toward it
UpdateOvershoots(s, n1, n2, specs) ==
    LET targetVoltage == IF s.targetLogic = 1 THEN s.baseHigh ELSE s.baseLow
        g == GaussianNoise(s.noiseCache, n1, n2)
        noisyVoltage == targetVoltage + Round(g.noise * s.noiseLevel, 5)
        filtered == s.currentValue
                      + Scale(noisyVoltage - s.currentValue,
                              100 + s.smoothingFactor)
    IN  [s EXCEPT !.currentValue = Clamp(filtered, specs),
                  !.noiseCache = g.cache]

\* Signal.update, with the deviates (n1, n2) a fresh draw would produce
Update(s, n1, n2, specs) ==
    LET targetVoltage == IF s.targetLogic = 1 THEN s.baseHigh ELSE s.baseLow
        g == GaussianNoise(s.noiseCache, n1, n2)
        noisyVoltage == targetVoltage + Round(g.noise * s.noiseLevel, 5)
        filtered == s.currentValue
                      + Scale(noisyVoltage - s.currentValue, s.smoothingFactor)
    IN  [s EXCEPT !.currentValue = Clamp(filtered, specs),
                  !.noiseCache = g.cache]

----------------------------------------------------------------------------
(* DFlipFlop *)

NewDFlipFlop ==
    [ qSignal |-> NewSignal(
          (VoltageSpecs.outputHighMin + VoltageSpecs.outputHighMax) \div 2,
          VoltageSpecs.outputLowMax \div 2,
          VoltageSpecs.outputSmoothingFactor),
      lastClkState |-> 0 ]

\* the discrimination without hysteresis: a dead-zone voltage reads 0
DiscriminateNoHold(clkVoltage, lastClkState, specs) ==
    IF clkVoltage > specs.logicHighMin THEN 1 ELSE 0

\* the hold branch left out: clkLogic stays undefined (-1 here) in the dead zone
DiscriminateNoElse(clkVoltage, lastClkState, specs) ==
    IF clkVoltage > specs.logicHighMin THEN 1
    ELSE IF clkVoltage < specs.logicLowMax THEN 0
    ELSE -1

\* the two comparisons made inclusive: a voltage on a threshold is classified
DiscriminateInclusive(clkVoltage, lastClkState, specs) ==
    IF clkVoltage >= specs.logicHighMin THEN 1
    ELSE IF clkVoltage <= specs.logicLowMax THEN 0
    ELSE lastClkState

\* step 1 of process: the Schmitt trigger
Discriminate(clkVoltage, lastClkState, specs) ==
    IF clkVoltage > specs.logicHighMin THEN 1
    ELSE IF clkVoltage < specs.logicLowMax THEN 0
    ELSE lastClkState

\* level-sensitive instead of edge-triggered
IsRisingEdgeLevel(lastClkState, clkLogic) ==
    clkLogic = 1

\* step 2 of process
IsRisingEdge(lastClkState, clkLogic) ==
    lastClkState = 0 /\ clkLogic = 1

\* D inside the undefined zone
IsMetastable(dVoltage, specs) ==
    ~(dVoltage > specs.logicHighMin) /\ ~(dVoltage < specs.logicLowMax)

\* the undefined zone resolved to 0 instead of at random
SampleDResolvesLow(dVoltage, coin, specs) ==
    IF dVoltage > specs.logicHighMin THEN 1 ELSE 0

\* sampling D on a rising edge; coin is the outcome of Math.random() > 0.5 ? 1 : 0
SampleD(dVoltage, coin, specs) ==
    IF dVoltage > specs.logicHighMin THEN 1
    ELSE IF dVoltage < specs.logicLowMax THEN 0
    ELSE coin

\* the reset branch without the output update
ProcessResetNoUpdate(f, n1, n2, specs) ==
    LET q == [f.qSignal EXCEPT !.targetLogic = 0]
    IN  [ dff |-> [f EXCEPT !.qSignal = q],
          ret |-> q.currentValue,
          edge |-> FALSE,
          updates |-> 0 ]

\* the reset branch of process
ProcessReset(f, n1, n2, specs) ==
    LET q == Update([f.qSignal EXCEPT !.targetLogic = 0], n1, n2, specs)
    IN  [ dff |-> [f EXCEPT !.qSignal = q],
          ret |-> q.currentValue,
          edge |-> FALSE,
          updates |-> 1 ]

\* the commit of lastClkState forgotten
ProcessClockedNoCommit(f, dVoltage, clkVoltage, coin, n1, n2, specs) ==
    LET clkLogic == Discriminate(clkVoltage, f.lastClkState, specs)
        isRisingEdge == IsRisingEdge(f.lastClkState, clkLogic)
        target == IF isRisingEdge THEN SampleD(dVoltage, coin, specs)
                  ELSE f.qSignal.targetLogic
        q == Update([f.qSignal EXCEPT !.targetLogic = target], n1, n2, specs)
    IN  [ dff |-> [qSignal |-> q, lastClkState |-> f.lastClkState],
          ret |-> q.currentValue,
          edge |-> isRisingEdge,
          updates |-> 1 ]

\* the clock voltage sampled in place of the D voltage
ProcessClockedSamplesClk(f, dVoltage, clkVoltage, coin, n1, n2, specs) ==
    LET clkLogic == Discriminate(clkVoltage, f.lastClkState, specs)
        isRisingEdge == IsRisingEdge(f.lastClkState, clkLogic)
        target == IF isRisingEdge THEN SampleD(clkVoltage, coin, specs)
                  ELSE f.qSignal.targetLogic
        q == Update([f.qSignal EXCEPT !.targetLogic = target], n1, n2, specs)
    IN  [ dff |-> [qSignal |-> q, lastClkState |-> clkLogic],
          ret |-> q.currentValue,
          edge |-> isRisingEdge,
          updates |-> 1 ]

\* the output updated before the edge is sampled
ProcessClockedUpdateFirst(f, dVoltage, clkVoltage, coin, n1, n2, specs) ==
    LET clkLogic == Discriminate(clkVoltage, f.lastClkState, specs)
        isRisingEdge == IsRisingEdge(f.lastClkState, clkLogic)
        target == IF isRisingEdge THEN SampleD(dVoltage, coin, specs)
                  ELSE f.qSignal.targetLogic
        q == [Update(f.qSignal, n1, n2, specs) EXCEPT !.targetLogic = target]
    IN  [ dff |-> [qSignal |-> q, lastClkState |-> clkLogic],
          ret |-> q.currentValue,
          edge |-> isRisingEdge,
          updates |-> 1 ]

\* lastClkState committed before the edge is looked for
ProcessClockedCommitsFirst(f, dVoltage, clkVoltage, coin, n1, n2, specs) ==
    LET clkLogic == Discriminate(clkVoltage, f.lastClkState, specs)
        isRisingEdge == IsRisingEdge(clkLogic, clkLogic)
        target == IF isRisingEdge THEN SampleD(dVoltage, coin, specs)
                  ELSE f.qSignal.targetLogic
        q == Update([f.qSignal EXCEPT !.targetLogic = target], n1, n2, specs)
    IN  [ dff |-> [qSignal |-> q, lastClkState |-> clkLogic],
          ret |-> q.currentValue,
          edge |-> isRisingEdge,
          updates |-> 1 ]

\* process past the reset check
ProcessClocked(f, dVoltage, clkVoltage, coin, n1, n2, specs) ==
    LET clkLogic == Discriminate(clkVoltage, f.lastClkState, specs)
        isRisingEdge == IsRisingEdge(f.lastClkState, clkLogic)
        target == IF isRisingEdge THEN SampleD(dVoltage, coin, specs)
                  ELSE f.qSignal.targetLogic
        q == Update([f.qSignal EXCEPT !.targetLogic = target], n1, n2, specs)
    IN  [ dff |-> [qSignal |-> q, lastClkState |-> clkLogic],
          ret |-> q.currentValue,
          edge |-> isRisingEdge,
          updates |-> 1 ]

\* the reset checked only when no edge was sampled
ProcessEdgeBeforeReset(f, dVoltage, clkVoltage, resetActive, coin, n1, n2, specs) ==
    LET c == ProcessClocked(f, dVoltage, clkVoltage, coin, n1, n2, specs)
    IN  IF resetActive /\ ~c.edge THEN ProcessReset(f, n1, n2, specs) ELSE c

\* the reset applied after the clock has been discriminated and committed
ProcessResetCommitsClock(f, dVoltage, clkVoltage, resetActive, coin, n1, n2, specs) ==
    IF resetActive
    THEN LET r == ProcessReset(f, n1, n2, specs)
         IN  [r EXCEPT !.dff.lastClkState =
                           Discriminate(clkVoltage, f.lastClkState, specs)]
    ELSE ProcessClocked(f, dVoltage, clkVoltage, coin, n1, n2, specs)

\* the reset clearing the clock level as well
ProcessResetClearsClock(f, dVoltage, clkVoltage, resetActive, coin, n1, n2, specs) ==
    IF resetActive
    THEN LET r == ProcessReset(f, n1, n2, specs)
         IN  [r EXCEPT !.dff.lastClkState = 0]
    ELSE ProcessClocked(f, dVoltage, clkVoltage, coin, n1, n2, specs)

\* DFlipFlop.process: the new flip-flop, the returned voltage, whether an edge
\* was detected and the number of qSignal.update calls made
Process(f, dVoltage, clkVoltage, resetActive, coin, n1, n2, specs) ==
    IF resetActive
    THEN ProcessReset(f, n1, n2, specs)
    ELSE ProcessClocked(f, dVoltage, clkVoltage, coin, n1, n2, specs)

----------------------------------------------------------------------------
(* WaveformBuffer *)

\* Entries of a Float32Array are single-precision numbers, held here as
\* whole multiples of 2^-28 V: every single-precision number between 0.05 V
\* and 5.5 V is one.

\* n / d rounded to the nearest integer, halves to the even one
RoundHalfEven(n, d) ==
    LET q == n \div d
        r == n % d
    IN  IF 2 * r > d \/ (2 * r = d /\ q % 2 = 1) THEN q + 1 ELSE q

\* Math.fround(v), the number a Float32Array stores for the voltage v: the
\* nearest number with a 24-bit significand
Fround(v) ==
    LET a == IF v < 0 THEN -v ELSE v
        k == CHOOSE i \in 0..6 : 40 <= a * 2^i /\ a * 2^i < 80
        m == RoundHalfEven(a * 2^(k + 22), 20)
        x == m * 2^(6 - k)
    IN  IF v = 0 THEN 0 ELSE IF v < 0 THEN -x ELSE x

\* entry === v: the stored number is the voltage v itself
SameNumber(entry, v) ==
    /\ entry % 2^26 = 0
    /\ (entry \div 2^26) * 5 = v

\* a & b for non-negative integers
RECURSIVE BitAnd(_, _)
BitAnd(a, b) ==
    IF a = 0 \/ b = 0 THEN 0
    ELSE 2 * BitAnd(a \div 2, b \div 2) + (IF a % 2 = 1 /\ b % 2 = 1 THEN 1 ELSE 0)

\* new Float32Array(length).fill(fillValue); index i of the array is i + 1 here
Filled(length, fillValue) == [i \in 1..length |-> Fround(fillValue)]

\* new WaveformBuffer(length, fillValue)
NewBuffer(length, fillValue) ==
    [ length |-> length,
      d |-> Filled(length, fillValue),
      clk |-> Filled(length, fillValue),
      q |-> Filled(length, fillValue),
      writePointer |-> 0 ]

\* the pointer advanced by two slots
PushSkipsSlot(b, dVal, clkVal, qVal) ==
    [b EXCEPT !.d[b.writePointer + 1] = Fround(dVal),
              !.clk[b.writePointer + 1] = Fround(clkVal),
              !.q[b.writePointer + 1] = Fround(qVal),
              !.writePointer = BitAnd(b.writePointer + 2, b.length - 1)]

\* push(dVal, clkVal, qVal)
Push(b, dVal, clkVal, qVal) ==
    [b EXCEPT !.d[b.writePointer + 1] = Fround(dVal),
              !.clk[b.writePointer + 1] = Fround(clkVal),
              !.q[b.writePointer + 1] = Fround(qVal),
              !.writePointer = BitAnd(b.writePointer + 1, b.length - 1)]

\* only the pointer is reset, the samples stay
ResetPointerOnly(b, fillValue) == [b EXCEPT !.writePointer = 0]

\* reset(fillValue)
Reset(b, fillValue) ==
    [b EXCEPT !.d = Filled(b.length, fillValue),
              !.clk = Filled(b.length, fillValue),
              !.q = Filled(b.length, fillValue),
              !.writePointer = 0]

\* history of a buffer just constructed or reset with fillValue
NoSamples(fillValue) == [fill |-> fillValue, samples |-> << >>]

----------------------------------------------------------------------------
(* SimulationEngine *)

\* the null animationFrameId; a requested frame has a non-zero handle
NoFrame == 0

\* the engine after construction; specs is the worker's copy of VoltageSpecs
NewEngine ==
    [ buffer |-> NewBuffer(Simulation.bufferLength, VoltageSpecs.outputLowMax),
      signalD |-> NewSignal(
          (VoltageSpecs.logicHighMin + VoltageSpecs.systemMax) \div 2,
          VoltageSpecs.logicLowMax \div 2,
          VoltageSpecs.smoothingFactor),
      signalClk |-> NewSignal(VoltageSpecs.outputHighMax, 0,
                              VoltageSpecs.smoothingFactor),
      dff |-> NewDFlipFlop,
      specs |-> VoltageSpecs,
      clockPhase |-> 0,
      clockSpeed |-> Simulation.defaultSpeed * Simulation.clockSpeedFactor,
      resetActive |-> FALSE,
      lastFrameTime |-> 0,
      lastUiUpdateTime |-> 0,
      animationFrameId |-> NoFrame ]

\* toggleD taking the opposite of the value sent
UpdateParamToggleInverted(e, key, value) ==
    CASE key = "toggleD" ->
           [e EXCEPT !.signalD.targetLogic = IF value THEN 0 ELSE 1]
      [] key = "reset" ->
           [e EXCEPT !.resetActive = value]
      [] key = "noise" ->
           LET noiseVolts == Scale(value, Simulation.maxNoiseLevel)
           IN  [e EXCEPT !.signalD.noiseLevel = noiseVolts,
                         !.dff.qSignal.noiseLevel =
                             Scale(noiseVolts, Simulation.outputNoiseRatio)]
      [] key = "speed" ->
           [e EXCEPT !.clockSpeed = value * Simulation.clockSpeedFactor]
      [] OTHER -> e

\* updateParam with the noise level given to the clock signal as well
UpdateParamNoiseOnClock(e, key, value) ==
    CASE key = "toggleD" ->
           [e EXCEPT !.signalD.targetLogic = IF value THEN 1 ELSE 0]
      [] key = "reset" ->
           [e EXCEPT !.resetActive = value]
      [] key = "noise" ->
           LET noiseVolts == Scale(value, Simulation.maxNoiseLevel)
           IN  [e EXCEPT !.signalD.noiseLevel = noiseVolts,
                         !.signalClk.noiseLevel = noiseVolts,
                         !.dff.qSignal.noiseLevel =
                             Scale(noiseVolts, Simulation.outputNoiseRatio)]
      [] key = "speed" ->
           [e EXCEPT !.clockSpeed = value * Simulation.clockSpeedFactor]
      [] OTHER -> e

\* updateParam(key, value)
UpdateParam(e, key, value) ==
    CASE key = "toggleD" ->
           [e EXCEPT !.signalD.targetLogic = IF value THEN 1 ELSE 0]
      [] key = "reset" ->
           [e EXCEPT !.resetActive = value]
      [] key = "noise" ->
           LET noiseVolts == Scale(value, Simulation.maxNoiseLevel)
           IN  [e EXCEPT !.signalD.noiseLevel = noiseVolts,
                         !.dff.qSignal.noiseLevel =
                             Scale(noiseVolts, Simulation.outputNoiseRatio)]
      [] key = "speed" ->
           [e EXCEPT !.clockSpeed = value * Simulation.clockSpeedFactor]
      [] OTHER -> e

\* Object.assign(VoltageSpecs, settings): the fields given replace the old ones
Assign(specs, settings) ==
    [ field \in DOMAIN specs |->
        IF field \in DOMAIN settings THEN settings[field] ELSE specs[field] ]

\* snapSignal taking the low level whatever the target
SnapSignalToLow(s) ==
    [s EXCEPT !.currentValue = s.baseLow]

\* snapSignal: the voltage jumps to the base level of the target logic
SnapSignal(s) ==
    [s EXCEPT !.currentValue = IF s.targetLogic = 1 THEN s.baseHigh ELSE s.baseLow]

\* applySettings returning the logic to its state after construction
ApplySettingsClearsLogic(e, settings) ==
    LET specs == Assign(e.specs, settings)
        d == [e.signalD EXCEPT
                 !.baseHigh = (specs.logicHighMin + specs.systemMax) \div 2,
                 !.baseLow = specs.logicLowMax \div 2,
                 !.targetLogic = 0]
        clk == [e.signalClk EXCEPT !.baseHigh = specs.outputHighMax,
                                   !.targetLogic = 0]
        q == [e.dff.qSignal EXCEPT
                 !.baseHigh = (specs.outputHighMin + specs.outputHighMax) \div 2,
                 !.baseLow = specs.outputLowMax \div 2,
                 !.targetLogic = 0]
    IN  [e EXCEPT !.specs = specs,
                  !.buffer = Reset(e.buffer, specs.outputLowMax),
                  !.signalD = SnapSignal(d),
                  !.signalClk = SnapSignal(clk),
                  !.dff.qSignal = SnapSignal(q),
                  !.dff.lastClkState = 0,
                  !.clockPhase = 0]

\* applySettings deriving the base levels from VoltageSpecs as it was before
\* the assignment
ApplySettingsStaleBases(e, settings) ==
    LET specs == Assign(e.specs, settings)
        d == [e.signalD EXCEPT
                 !.baseHigh = (e.specs.logicHighMin + e.specs.systemMax) \div 2,
                 !.baseLow = e.specs.logicLowMax \div 2]
        clk == [e.signalClk EXCEPT !.baseHigh = e.specs.outputHighMax]
        q == [e.dff.qSignal EXCEPT
                 !.baseHigh = (e.specs.outputHighMin + e.specs.outputHighMax) \div 2,
                 !.baseLow = e.specs.outputLowMax \div 2]
    IN  [e EXCEPT !.specs = specs,
                  !.buffer = Reset(e.buffer, specs.outputLowMax),
                  !.signalD = SnapSignal(d),
                  !.signalClk = SnapSignal(clk),
                  !.dff.qSignal = SnapSignal(q),
                  !.clockPhase = 0]

\* applySettings(settings)
ApplySettings(e, settings) ==
    LET specs == Assign(e.specs, settings)
        d == [e.signalD EXCEPT
                 !.baseHigh = (specs.logicHighMin + specs.systemMax) \div 2,
                 !.baseLow = specs.logicLowMax \div 2]
        clk == [e.signalClk EXCEPT !.baseHigh = specs.outputHighMax]
        q == [e.dff.qSignal EXCEPT
                 !.baseHigh = (specs.outputHighMin + specs.outputHighMax) \div 2,
                 !.baseLow = specs.outputLowMax \div 2]
    IN  [e EXCEPT !.specs = specs,
                  !.buffer = Reset(e.buffer, specs.outputLowMax),
                  !.signalD = SnapSignal(d),
                  !.signalClk = SnapSignal(clk),
                  !.dff.qSignal = SnapSignal(q),
                  !.clockPhase = 0]

\* the comparison with 0 made inclusive
SinNonNegative(clockPhase) ==
    LET p == clockPhase % TwoPi
    IN  2 * p <= TwoPi

\* Math.sin(clockPhase) > 0: the phase lies strictly inside the first half period
SinPositive(clockPhase) ==
    LET p == clockPhase % TwoPi
    IN  0 < p /\ 2 * p < TwoPi

\* the phase advanced by a fixed amount per tick, whatever dt is
PhaseAdvancePerTick(clockSpeed, dt) ==
    clockSpeed

\* the phase advance of one tick of dt
PhaseAdvance(clockSpeed, dt) ==
    (clockSpeed * dt * Simulation.baseFrameRate) \div Second

\* the wrap made only once the phase has passed one and a half periods
AdvancePhaseWrapsLate(clockPhase, clockSpeed, dt) ==
    LET advanced == clockPhase + PhaseAdvance(clockSpeed, dt)
    IN  IF 2 * advanced > 3 * TwoPi THEN advanced - TwoPi ELSE advanced

\* the wrap restarting the phase from 0
AdvancePhaseWrapsToZero(clockPhase, clockSpeed, dt) ==
    LET advanced == clockPhase + PhaseAdvance(clockSpeed, dt)
    IN  IF advanced > TwoPi THEN 0 ELSE advanced

\* the first two statements of stepPhysics: advance the phase, wrap it once
AdvancePhase(clockPhase, clockSpeed, dt) ==
    LET advanced == clockPhase + PhaseAdvance(clockSpeed, dt)
    IN  IF advanced > TwoPi THEN advanced - TwoPi ELSE advanced

\* update with the smoothing factor scaled by the frames dt spans
UpdateDtScaled(s, dt, n1, n2, specs) ==
    LET factor == s.smoothingFactor * ((dt * Simulation.baseFrameRate) \div Second)
        scaled == [s EXCEPT !.smoothingFactor = IF factor > 100 THEN 100 ELSE factor]
    IN  [Update(scaled, n1, n2, specs) EXCEPT !.smoothingFactor = s.smoothingFactor]

\* signal.update(dt) as stepPhysics calls it: update declares no parameter,
\* so the argument is dropped
UpdateDt(s, dt, n1, n2, specs) == Update(s, n1, n2, specs)

\* dff.process(dVoltage, clkVoltage, resetActive, dt): process declares three
\* parameters, so the fourth argument is dropped
ProcessDt(f, dVoltage, clkVoltage, resetActive, dt, coin, n1, n2, specs) ==
    Process(f, dVoltage, clkVoltage, resetActive, coin, n1, n2, specs)

\* stepPhysics up to the update of the two source signals
StepSignals(e, dt, nClk, nD) ==
    LET clockPhase == AdvancePhase(e.clockPhase, e.clockSpeed, dt)
        clk == [e.signalClk EXCEPT
                   !.targetLogic = IF SinPositive(clockPhase) THEN 1 ELSE 0]
    IN  [e EXCEPT !.clockPhase = clockPhase,
                  !.signalClk = UpdateDt(clk, dt, nClk[1], nClk[2], e.specs),
                  !.signalD = UpdateDt(e.signalD, dt, nD[1], nD[2], e.specs)]

\* the flip-flop called with the two voltages in each other's place
StepFlipFlopSwapsInputs(e, dt, coin, nQ) ==
    LET r == ProcessDt(e.dff, e.signalClk.currentValue, e.signalD.currentValue,
                       e.resetActive, dt, coin, nQ[1], nQ[2], e.specs)
    IN  [ engine |-> [e EXCEPT !.dff = r.dff,
                               !.buffer = Push(e.buffer, e.signalD.currentValue,
                                               e.signalClk.currentValue, r.ret)],
          seen |-> [ dVoltage |-> e.signalClk.currentValue,
                     clkVoltage |-> e.signalD.currentValue,
                     resetActive |-> e.resetActive ],
          edge |-> r.edge,
          sample |-> << e.signalD.currentValue, e.signalClk.currentValue,
                        r.ret >> ]

\* the rest of stepPhysics: the flip-flop processes the two voltages and the
\* sample is pushed; seen is what process was called with
StepFlipFlop(e, dt, coin, nQ) ==
    LET r == ProcessDt(e.dff, e.signalD.currentValue, e.signalClk.currentValue,
                       e.resetActive, dt, coin, nQ[1], nQ[2], e.specs)
    IN  [ engine |-> [e EXCEPT !.dff = r.dff,
                               !.buffer = Push(e.buffer, e.signalD.currentValue,
                                               e.signalClk.currentValue, r.ret)],
          seen |-> [ dVoltage |-> e.signalD.currentValue,
                     clkVoltage |-> e.signalClk.currentValue,
                     resetActive |-> e.resetActive ],
          edge |-> r.edge,
          sample |-> << e.signalD.currentValue, e.signalClk.currentValue,
                        r.ret >> ]

\* stepPhysics(dt)
StepPhysics(e, dt, coin, nClk, nD, nQ) ==
    StepFlipFlop(StepSignals(e, dt, nClk, nD), dt, coin, nQ)

\* the loop passing the elapsed time on unclamped
LoopNoClamp(e, timestamp, coin, nClk, nD, nQ) ==
    LET lastFrameTime == IF e.lastFrameTime = 0 THEN timestamp
                         ELSE e.lastFrameTime
        elapsed == timestamp - lastFrameTime
        r == StepPhysics([e EXCEPT !.lastFrameTime = timestamp],
                         elapsed, coin, nClk, nD, nQ)
        sync == timestamp - e.lastUiUpdateTime > (50 * Second) \div 1000
    IN  [ engine |-> [r.engine EXCEPT
                         !.lastUiUpdateTime = IF sync THEN timestamp ELSE @,
                         !.animationFrameId = 1],
          dt |-> elapsed, elapsed |-> elapsed,
          seen |-> r.seen, edge |-> r.edge, sample |-> r.sample ]

\* loop(timestamp): dt from the frame timestamps, clamped to 0.1 s, one physics
\* step, the UI status sync every 50 ms and the request of the next frame
Loop(e, timestamp, coin, nClk, nD, nQ) ==
    LET lastFrameTime == IF e.lastFrameTime = 0 THEN timestamp
                         ELSE e.lastFrameTime
        elapsed == timestamp - lastFrameTime
        dt == IF elapsed > Second \div 10 THEN Second \div 10 ELSE elapsed
        r == StepPhysics([e EXCEPT !.lastFrameTime = timestamp],
                         dt, coin, nClk, nD, nQ)
        sync == timestamp - e.lastUiUpdateTime > (50 * Second) \div 1000
    IN  [ engine |-> [r.engine EXCEPT
                         !.lastUiUpdateTime = IF sync THEN timestamp ELSE @,
                         !.animationFrameId = 1],
          dt |-> dt, elapsed |-> elapsed,
          seen |-> r.seen, edge |-> r.edge, sample |-> r.sample ]

----------------------------------------------------------------------------
(* Settings sidebar (main thread) *)

\* parseFloat of a field that holds no number: a value apart from every
\* voltage, which no comparison of the handlers may treat as one
NaN == 10000

\* a key of the form with no input element on the page
NoInput == 20000

\* validate's verdict on a spec it accepts
Null == "null"

editableKeys ==
    {"logicHighMin", "logicLowMax", "outputHighMin", "outputHighMax", "outputLowMax"}

\* the copy of VoltageSpecs taken when the module loads
defaultSpecs == VoltageSpecs

\* isInvalid(v): v === undefined || isNaN(v)
IsInvalid(values, key) == key \notin DOMAIN values \/ values[key] = NaN

\* validate without the comparisons against clampMin and systemMax
ValidateNoRangeCheck(values) ==
    IF \E key \in editableKeys : IsInvalid(values, key)
    THEN "empty"
    ELSE IF \/ values.outputHighMin < values.logicHighMin
            \/ values.outputHighMax < values.outputHighMin
            \/ values.logicLowMax >= values.logicHighMin
            \/ values.outputLowMax >= values.logicLowMax
         THEN "conflict"
         ELSE Null

\* validate without the check for missing and non-numeric values: a
\* comparison with NaN or undefined is false
ValidateNoNaNCheck(values) ==
    LET Num(key) == key \in DOMAIN values /\ values[key] # NaN
        Less(a, b) == Num(a) /\ Num(b) /\ values[a] < values[b]
        Below(a, limit) == Num(a) /\ values[a] < limit
        Above(a, limit) == Num(a) /\ values[a] > limit
    IN  IF \/ Below("logicLowMax", defaultSpecs.clampMin)
           \/ Below("outputLowMax", defaultSpecs.clampMin)
           \/ Above("logicHighMin", defaultSpecs.systemMax)
           \/ Above("outputHighMax", defaultSpecs.systemMax)
           \/ Less("outputHighMin", "logicHighMin")
           \/ Less("outputHighMax", "outputHighMin")
           \/ Num("logicLowMax") /\ Num("logicHighMin")
                /\ values.logicLowMax >= values.logicHighMin
           \/ Num("outputLowMax") /\ Num("logicLowMax")
                /\ values.outputLowMax >= values.logicLowMax
        THEN "conflict"
        ELSE Null

\* validate with the two thresholds allowed to coincide
ValidateAllowsEqualThresholds(values) ==
    IF \E key \in editableKeys : IsInvalid(values, key)
    THEN "empty"
    ELSE IF \/ values.logicLowMax < defaultSpecs.clampMin
            \/ values.outputLowMax < defaultSpecs.clampMin
            \/ values.logicHighMin > defaultSpecs.systemMax
            \/ values.outputHighMax > defaultSpecs.systemMax
            \/ values.outputHighMin < values.logicHighMin
            \/ values.outputHighMax < values.outputHighMin
            \/ values.logicLowMax > values.logicHighMin
            \/ values.outputLowMax >= values.logicLowMax
         THEN "conflict"
         ELSE Null

\* validate(values): null, or the message shown under the form
Validate(values) ==
    IF \E key \in editableKeys : IsInvalid(values, key)
    THEN "empty"
    ELSE IF \/ values.logicLowMax < defaultSpecs.clampMin
            \/ values.outputLowMax < defaultSpecs.clampMin
            \/ values.logicHighMin > defaultSpecs.systemMax
            \/ values.outputHighMax > defaultSpecs.systemMax
            \/ values.outputHighMin < values.logicHighMin
            \/ values.outputHighMax < values.outputHighMin
            \/ values.logicLowMax >= values.logicHighMin
            \/ values.outputLowMax >= values.logicLowMax
         THEN "conflict"
         ELSE Null

\* the form before the sidebar is first opened: every field empty
NewForm ==
    [ fields |-> [key \in editableKeys |-> NaN],
      error |-> "",
      errorActive |-> FALSE,
      saveDisabled |-> FALSE ]

\* the values the handlers read from the form: parseFloat of the field of each
\* key that has an input element
ValuesOf(f) ==
    [key \in {k \in editableKeys : f.fields[k] # NoInput} |-> f.fields[key]]

\* openSidebar: the fields show the current VoltageSpecs
OpenSidebar(f, specs) ==
    [f EXCEPT !.fields = [key \in editableKeys |->
                            IF f.fields[key] = NoInput THEN NoInput ELSE specs[key]],
              !.error = "",
              !.saveDisabled = FALSE]

\* the form's input handler, run on the fields as edited
OnInput(f) ==
    LET err == Validate(ValuesOf(f))
    IN  [f EXCEPT !.error = IF err = Null THEN "" ELSE err,
                  !.errorActive = (err # Null),
                  !.saveDisabled = (err # Null)]

\* the submit handler applying the values before it validates them
OnSubmitNoValidation(f, specs) ==
    LET values == ValuesOf(f)
    IN  [ err |-> Validate(values),
          specs |-> Assign(specs, values),
          send |-> << [type |-> "SETTINGS_UPDATE", key |-> "settings",
                       value |-> values] >> ]

\* the form's submit handler: the verdict, the main thread's VoltageSpecs after
\* it, and the messages app.updateSettings posts
OnSubmit(f, specs) ==
    LET values == ValuesOf(f)
        err == Validate(values)
    IN  IF err # Null
        THEN [err |-> err, specs |-> specs, send |-> << >>]
        ELSE [ err |-> err,
               specs |-> Assign(specs, values),
               send |-> << [type |-> "SETTINGS_UPDATE", key |-> "settings",
                            value |-> values] >> ]

\* the restore-defaults handler: the form and VoltageSpecs after it, and the
\* message app.updateSettings posts
OnRestoreDefaults(f, specs) ==
    [ form |-> [f EXCEPT !.fields = [key \in editableKeys |->
                                        IF f.fields[key] = NoInput THEN NoInput
                                        ELSE defaultSpecs[key]],
                         !.error = "",
                         !.errorActive = FALSE,
                         !.saveDisabled = FALSE],
      specs |-> Assign(specs, defaultSpecs),
      send |-> << [type |-> "SETTINGS_UPDATE", key |-> "settings",
                   value |-> defaultSpecs] >> ]

----------------------------------------------------------------------------
(* Callers of the flip-flop *)

\* Input voltages: below, on and above each threshold, and outside the clamp range
Voltages ==
    { VoltageSpecs.clampMin - 2, 0, VoltageSpecs.logicLowMax, 16,
      VoltageSpecs.logicHighMin, 40, VoltageSpecs.systemMax + 2 }

\* the record of the call in progress; NoCall once it has returned
NoCall ==
    [ op |-> "none", dVoltage |-> 0, clkVoltage |-> 0, resetActive |-> FALSE,
      edge |-> FALSE, ret |-> 0, updates |-> 0, preLast |-> 0, preTarget |-> 0 ]

\* the record of the stepPhysics call in progress; NoStep once it has returned
NoStep ==
    [ op |-> "none", dt |-> 0, elapsed |-> 0, edge |-> FALSE,
      seen |-> [dVoltage |-> 0, clkVoltage |-> 0, resetActive |-> FALSE],
      sample |-> <<0, 0, 0>>, params |-> << >> ]

\* what the parameter and settings messages set, and a tick reads
ParamsOf(e) ==
    [ targetLogic |-> e.signalD.targetLogic,
      resetActive |-> e.resetActive,
      clockSpeed |-> e.clockSpeed,
      specs |-> e.specs,
      noiseLevels |-> << e.signalD.noiseLevel, e.dff.qSignal.noiseLevel >>,
      baseLevels |-> << e.signalD.baseHigh, e.signalD.baseLow,
                        e.signalClk.baseHigh, e.signalClk.baseLow,
                        e.dff.qSignal.baseHigh, e.dff.qSignal.baseLow >> ]

\* the deviates a call of update draws: a pair when the cache is empty
Draws(s) ==
    IF s.noiseCache = NoCache THEN Deviates \X Deviates ELSE {<<0, 0>>}

\* the outcomes of Math.random() > 0.5 when process evaluates it
Coins(f, dVoltage, clkVoltage, resetActive, specs) ==
    IF /\ ~resetActive
       /\ IsRisingEdge(f.lastClkState,
                       Discriminate(clkVoltage, f.lastClkState, specs))
       /\ IsMetastable(dVoltage, specs)
    THEN {0, 1} ELSE {0}

Side(clkVoltage, specs, before) ==
    IF clkVoltage > specs.logicHighMin THEN "high"
    ELSE IF clkVoltage < specs.logicLowMax THEN "low"
    ELSE before

\* the worker's renderer side when the page has been constructed: INIT is
\* the first message posted, no renderer exists and none is attached
NewRender ==
    [ inbox |-> << [type |-> "INIT"] >>,
      init |-> "idle",
      renderer |-> "none",
      attached |-> 0,
      lastSwitch |-> "none",
      clicks |-> 0 ]

\* the main thread after construction: localTargetLogicD is 0 and nothing
\* but INIT has been sent
NewApp == [localTargetLogicD |-> 0, sent |-> << >>, handled |-> << >>]

\* no run of reset calls is on record
NoRun == [state |-> "none", before |-> 0, seen |-> "none"]

\* what the clock did during a run: nothing outside the undefined zone yet,
\* last seen "low" or "high", or "lowhigh" once it went low and high again
Seen(seen, clkVoltage, specs) ==
    IF clkVoltage > specs.logicHighMin
    THEN IF seen \in {"low", "lowhigh"} THEN "lowhigh" ELSE "high"
    ELSE IF clkVoltage < specs.logicLowMax THEN "low"
    ELSE seen

\* the record after a process call: a reset call opens or continues a run,
\* noting lastClkState as it was before the run; the first call without
\* reset ends the run and the next one forgets it
RunAfter(run, lastClkState, clkVoltage, resetActive, specs) ==
    IF resetActive
    THEN IF run.state = "active"
         THEN [run EXCEPT !.seen = Seen(run.seen, clkVoltage, specs)]
         ELSE [state |-> "active", before |-> lastClkState,
               seen |-> Seen("none", clkVoltage, specs)]
    ELSE IF run.state = "active" THEN [run EXCEPT !.state = "ended"]
    ELSE NoRun

\* dff.process(dVoltage, clkVoltage, resetActive), with its random draws
ProcessWith(dVoltage, clkVoltage, resetActive) ==
    \E coin \in Coins(dff, dVoltage, clkVoltage, resetActive, VoltageSpecs),
       n \in Draws(dff.qSignal) :
        LET r == Process(dff, dVoltage, clkVoltage, resetActive, coin,
                         n[1], n[2], VoltageSpecs)
        IN  /\ dff' = r.dff
            /\ call' = [ op |-> "process", dVoltage |-> dVoltage,
                         clkVoltage |-> clkVoltage, resetActive |-> resetActive,
                         edge |-> r.edge, ret |-> r.ret, updates |-> r.updates,
                         preLast |-> dff.lastClkState,
                         preTarget |-> dff.qSignal.targetLogic ]
            /\ lastOutside' = IF resetActive THEN lastOutside
                              ELSE Side(clkVoltage, VoltageSpecs, lastOutside)
            /\ lastSampled' =
                 IF resetActive THEN << >>
                 ELSE IF r.edge
                      THEN IF IsMetastable(dVoltage, VoltageSpecs) THEN << >>
                           ELSE << IF dVoltage > VoltageSpecs.logicHighMin
                                   THEN 1 ELSE 0 >>
                      ELSE lastSampled
            /\ UNCHANGED <<sig, engineVars, bufferVars, twinVars, pageVars, mainVars>>

\* a caller runs dff.process on any voltages, with reset active or not
ProcessCall ==
    /\ call.op = "none"
    /\ \E dVoltage \in Voltages, clkVoltage \in Voltages, resetActive \in BOOLEAN :
        ProcessWith(dVoltage, clkVoltage, resetActive)
    /\ UNCHANGED resetRun

\* the call returns to its caller
Return ==
    /\ call.op # "none"
    /\ call' = NoCall
    /\ UNCHANGED <<dff, sig, lastOutside, lastSampled, resetRun, engineVars, bufferVars, twinVars, pageVars, mainVars>>

\* constructor arguments of a free-standing Signal: the engine's D, CLK and Q,
\* an unfiltered signal whose base levels lie outside the clamp range, and a
\* signal that starts far below the clamp range with its high level inside it
SignalConfigs ==
    { << (VoltageSpecs.logicHighMin + VoltageSpecs.systemMax) \div 2,
         VoltageSpecs.logicLowMax \div 2, VoltageSpecs.smoothingFactor >>,
      << VoltageSpecs.outputHighMax, 0, VoltageSpecs.smoothingFactor >>,
      << (VoltageSpecs.outputHighMin + VoltageSpecs.outputHighMax) \div 2,
         VoltageSpecs.outputLowMax \div 2, VoltageSpecs.outputSmoothingFactor >>,
      << VoltageSpecs.systemMax + 10, VoltageSpecs.clampMin - 10, 100 >>,
      << VoltageSpecs.outputHighMax, VoltageSpecs.clampMin - 30,
         VoltageSpecs.smoothingFactor >> }

\* positions of the noise slider
NoisePercents == {0, 10, 100}

\* a caller runs sig.update()
UpdateCall ==
    /\ call.op = "none"
    /\ \E n \in Draws(sig) :
        LET s == Update(sig, n[1], n[2], VoltageSpecs)
        IN  /\ sig' = s
            /\ call' = [NoCall EXCEPT !.op = "update", !.updates = 1,
                                      !.ret = s.currentValue,
                                      !.preTarget = sig.targetLogic]
    /\ UNCHANGED <<dff, lastOutside, lastSampled, resetRun, engineVars, bufferVars, twinVars, pageVars, mainVars>>

\* a caller assigns sig.targetLogic
SetTargetLogic ==
    /\ call.op = "none"
    /\ \E value \in {0, 1} :
        /\ value # sig.targetLogic
        /\ sig' = [sig EXCEPT !.targetLogic = value]
    /\ UNCHANGED <<dff, call, lastOutside, lastSampled, resetRun, engineVars, bufferVars, twinVars, pageVars, mainVars>>

\* a caller assigns sig.noiseLevel from the noise slider
SetNoiseLevel ==
    /\ call.op = "none"
    /\ \E value \in NoisePercents :
        LET noiseVolts == Scale(value, Simulation.maxNoiseLevel)
        IN  /\ noiseVolts # sig.noiseLevel
            /\ sig' = [sig EXCEPT !.noiseLevel = noiseVolts]
    /\ UNCHANGED <<dff, call, lastOutside, lastSampled, resetRun, engineVars, bufferVars, twinVars, pageVars, mainVars>>

Init ==
    /\ dff = NewDFlipFlop
    /\ sig = NewSignal(VoltageSpecs.outputHighMin, VoltageSpecs.outputLowMax,
                       VoltageSpecs.smoothingFactor)
    /\ call = NoCall
    /\ lastOutside = "none"
    /\ lastSampled = << >>
    /\ resetRun = NoRun
    /\ twin = NewEngine
    /\ sampledUndefined = FALSE
    /\ render = NewRender
    /\ app = NewApp
    /\ engine = NewEngine
    /\ step = NoStep
    /\ rawPhase = 0
    /\ inbox = << >>
    /\ posted = 0
    /\ frames = 0
    /\ buf = NewBuffer(Simulation.bufferLength, 0)
    /\ pushed = NoSamples(0)
    /\ mainSpecs = VoltageSpecs
    /\ form = NewForm

Next == ProcessCall \/ Return

Spec == Init /\ [][Next]_vars

\* D voltages of the calls around a reset: low, undefined and high
DLevels == {0, 16, 40}

\* a caller runs dff.process while the reset line is pulsed
ResetRunCall ==
    /\ call.op = "none"
    /\ \E dVoltage \in DLevels, clkVoltage \in Voltages, resetActive \in BOOLEAN :
        /\ ProcessWith(dVoltage, clkVoltage, resetActive)
        /\ resetRun' = RunAfter(resetRun, dff.lastClkState, clkVoltage,
                                resetActive, VoltageSpecs)

NextResetRun == ResetRunCall \/ Return

\* the flip-flop called with and without reset, the runs of reset calls recorded
SpecResetRun == Init /\ [][NextResetRun]_vars

\* a Signal on its own, constructed with any of SignalConfigs
InitSignal ==
    /\ dff = NewDFlipFlop
    /\ sig \in { NewSignal(c[1], c[2], c[3]) : c \in SignalConfigs }
    /\ call = NoCall
    /\ lastOutside = "none"
    /\ lastSampled = << >>
    /\ resetRun = NoRun
    /\ twin = NewEngine
    /\ sampledUndefined = FALSE
    /\ render = NewRender
    /\ app = NewApp
    /\ engine = NewEngine
    /\ step = NoStep
    /\ rawPhase = 0
    /\ inbox = << >>
    /\ posted = 0
    /\ frames = 0
    /\ buf = NewBuffer(Simulation.bufferLength, 0)
    /\ pushed = NoSamples(0)
    /\ mainSpecs = VoltageSpecs
    /\ form = NewForm

NextSignal == UpdateCall \/ SetTargetLogic \/ SetNoiseLevel \/ Return

SpecSignal == InitSignal /\ [][NextSignal]_vars

\* the animation loop runs update once per frame for as long as it runs, and
\* every call returns
SpecSignalFair ==
    InitSignal /\ [][NextSignal]_vars /\ WF_vars(UpdateCall) /\ WF_vars(Return)

----------------------------------------------------------------------------
(* Callers of the engine *)

\* messages the main thread posts in one run
MaxMessages == 2

\* animation frames of one run
MaxFrames == 5

\* dt values stepPhysics is called with: 0, one and two frames at 60 fps, and
\* the 0.1 s the loop clamps to
DeltaTimes == {0, 1, 2, Second \div 10}

\* positions of the speed slider
Speeds == {0, 30, 60, 100}

\* the noise draws of a tick: the engine is stepped with quiet draws, the
\* deviates themselves being exercised on a Signal and a DFlipFlop alone
StepDraws == {<<0, 0>>}

\* engine.stepPhysics(dt), with its random draws
StepWith(dt) ==
    \E nClk \in StepDraws, nD \in StepDraws, nQ \in StepDraws :
        LET e == StepSignals(engine, dt, nClk, nD)
        IN  \E coin \in Coins(e.dff, e.signalD.currentValue,
                               e.signalClk.currentValue, e.resetActive, e.specs) :
                LET r == StepPhysics(engine, dt, coin, nClk, nD, nQ)
                IN  /\ engine' = r.engine
                    /\ step' = [ op |-> "stepPhysics", dt |-> dt,
                                 elapsed |-> dt, edge |-> r.edge,
                                 seen |-> r.seen, sample |-> r.sample,
                                 params |-> ParamsOf(engine) ]
                    /\ rawPhase' =
                         (rawPhase + PhaseAdvance(engine.clockSpeed, dt)) % TwoPi
                    /\ UNCHANGED <<physicsVars, bufferVars, twinVars, pageVars, mainVars, workerVars>>

\* a caller runs stepPhysics with any dt the loop may pass
StepCall ==
    /\ step.op = "none"
    /\ \E dt \in DeltaTimes : StepWith(dt)

\* stepPhysics returns
StepReturn ==
    /\ step.op # "none"
    /\ step' = NoStep
    /\ UNCHANGED <<physicsVars, bufferVars, twinVars, pageVars, mainVars, engine, rawPhase, workerVars>>

\* updateParam(key, value) between two ticks
ParamUpdate(key, values) ==
    /\ step.op = "none"
    /\ \E value \in values :
        /\ engine' = UpdateParam(engine, key, value)
        /\ engine' # engine
    /\ UNCHANGED <<physicsVars, bufferVars, twinVars, pageVars, mainVars, step, rawPhase, workerVars>>

SpeedUpdate == ParamUpdate("speed", Speeds)

\* the clock generator: ticks of any dt and speed changes
NextClock == StepCall \/ StepReturn \/ SpeedUpdate

SpecClock == Init /\ [][NextClock]_vars

\* time between two frames: none, a frame at 60 fps, just over the 0.1 s of
\* the clamp, and a tab suspended for over a second
FrameGaps == {0, 1, Second \div 10 + 1, Second + 1}

\* loop(timestamp), with its random draws
LoopWith(timestamp) ==
    \E nClk \in StepDraws, nD \in StepDraws, nQ \in StepDraws :
        LET quiet == Loop(engine, timestamp, 0, nClk, nD, nQ)
            e == StepSignals(engine, quiet.dt, nClk, nD)
        IN  \E coin \in Coins(e.dff, e.signalD.currentValue,
                               e.signalClk.currentValue, e.resetActive, e.specs) :
                LET r == Loop(engine, timestamp, coin, nClk, nD, nQ)
                IN  /\ engine' = r.engine
                    /\ step' = [ op |-> "stepPhysics", dt |-> r.dt,
                                 elapsed |-> r.elapsed, edge |-> r.edge,
                                 seen |-> r.seen, sample |-> r.sample,
                                 params |-> ParamsOf(engine) ]
                    /\ rawPhase' =
                         (rawPhase + PhaseAdvance(engine.clockSpeed, r.dt)) % TwoPi
                    /\ frames' = frames + 1
                    /\ UNCHANGED <<physicsVars, bufferVars, twinVars, mainVars, inbox, posted>>

\* start(): the first pass of the loop, with timestamp 0
StartCall ==
    /\ step.op = "none"
    /\ engine.animationFrameId = NoFrame
    /\ LoopWith(0)
    /\ UNCHANGED pageVars

\* the browser runs the requested frame callback; frame timestamps never
\* decrease, and a suspended tab delays the frame for any time
FrameCall ==
    /\ step.op = "none"
    /\ engine.animationFrameId # NoFrame
    /\ frames < MaxFrames
    /\ \E gap \in FrameGaps : LoopWith(engine.lastFrameTime + gap)
    /\ UNCHANGED pageVars

\* the animation loop on its own
NextLoop == StartCall \/ FrameCall \/ StepReturn

SpecLoop == Init /\ [][NextLoop]_vars

\* parameter messages of the control panel
ParamMessages ==
    { [type |-> "PARAM_UPDATE", key |-> "toggleD", value |-> TRUE],
      [type |-> "PARAM_UPDATE", key |-> "toggleD", value |-> FALSE],
      [type |-> "PARAM_UPDATE", key |-> "reset", value |-> TRUE],
      [type |-> "PARAM_UPDATE", key |-> "reset", value |-> FALSE],
      [type |-> "PARAM_UPDATE", key |-> "noise", value |-> 0],
      [type |-> "PARAM_UPDATE", key |-> "speed", value |-> 100] }

\* settings messages of the settings sidebar: a spec with wider thresholds
SettingsMessages ==
    { [type |-> "SETTINGS_UPDATE", key |-> "settings",
       value |-> [ logicHighMin |-> 24, logicLowMax |-> 8, outputHighMin |-> 40,
                   outputHighMax |-> 44, outputLowMax |-> 6 ]] }

\* the main thread posts a message, at any moment of the worker's execution
PostMessage ==
    /\ posted < MaxMessages
    /\ \E msg \in ParamMessages \cup SettingsMessages :
        inbox' = Append(inbox, msg)
    /\ posted' = posted + 1
    /\ UNCHANGED <<physicsVars, bufferVars, twinVars, pageVars, mainVars, engine, step, rawPhase, frames>>

\* the handling of msg by self.onmessage
OnMessage(e, msg) ==
    CASE msg.type = "PARAM_UPDATE" -> UpdateParam(e, msg.key, msg.value)
      [] msg.type = "SETTINGS_UPDATE" -> ApplySettings(e, msg.value)
      [] OTHER -> e

\* self.onmessage runs on the oldest message while stepPhysics runs
HandleMessageAnytime ==
    /\ inbox # << >>
    /\ engine' = OnMessage(engine, Head(inbox))
    /\ inbox' = Tail(inbox)
    /\ rawPhase' = IF Head(inbox).type = "SETTINGS_UPDATE" THEN 0 ELSE rawPhase
    /\ UNCHANGED <<physicsVars, bufferVars, twinVars, pageVars, mainVars, step, posted, frames>>

\* self.onmessage runs on the oldest message; the worker runs one task at a
\* time, so it starts only when no frame callback is on the stack
HandleMessage ==
    /\ step.op = "none"
    /\ inbox # << >>
    /\ engine' = OnMessage(engine, Head(inbox))
    /\ inbox' = Tail(inbox)
    /\ rawPhase' = IF Head(inbox).type = "SETTINGS_UPDATE" THEN 0 ELSE rawPhase
    /\ UNCHANGED <<physicsVars, bufferVars, twinVars, pageVars, mainVars, step, posted, frames>>

\* frame rates of the worker's animation loop: 60 fps and a stalled frame
FrameTimes == {1, Second \div 10}

\* the frame callback enters stepPhysics and updates the two source signals
FrameBegin ==
    /\ step.op = "none"
    /\ frames < MaxFrames
    /\ frames' = frames + 1
    /\ \E dt \in FrameTimes, nClk \in StepDraws, nD \in StepDraws :
        /\ engine' = StepSignals(engine, dt, nClk, nD)
        /\ step' = [NoStep EXCEPT !.op = "signals", !.dt = dt, !.elapsed = dt,
                                  !.params = ParamsOf(engine)]
        /\ rawPhase' = (rawPhase + PhaseAdvance(engine.clockSpeed, dt)) % TwoPi
    /\ UNCHANGED <<physicsVars, bufferVars, twinVars, pageVars, mainVars, inbox, posted>>

\* stepPhysics runs the flip-flop and pushes the sample
FrameEnd ==
    /\ step.op = "signals"
    /\ \E nQ \in StepDraws,
          coin \in Coins(engine.dff, engine.signalD.currentValue,
                         engine.signalClk.currentValue, engine.resetActive,
                         engine.specs) :
        LET r == StepFlipFlop(engine, step.dt, coin, nQ)
        IN  /\ engine' = r.engine
            /\ step' = [step EXCEPT !.op = "stepPhysics", !.edge = r.edge,
                                    !.seen = r.seen, !.sample = r.sample]
    /\ UNCHANGED <<physicsVars, bufferVars, twinVars, pageVars, mainVars, rawPhase, workerVars>>

\* the frame callback returns to the event loop
FrameReturn ==
    /\ step.op = "stepPhysics"
    /\ step' = NoStep
    /\ UNCHANGED <<physicsVars, bufferVars, twinVars, pageVars, mainVars, engine, rawPhase, workerVars>>

\* the worker: messages arrive at any time and are handled between frames
NextWorker ==
    PostMessage \/ HandleMessage \/ FrameBegin \/ FrameEnd \/ FrameReturn

SpecWorker == Init /\ [][NextWorker]_vars

----------------------------------------------------------------------------
(* Callers of the settings sidebar *)

\* what a field of the form may hold: a voltage just outside, on and inside
\* the limits of the clamp range, or no number
FieldValues ==
    { defaultSpecs.clampMin - 1, defaultSpecs.clampMin, 12, 20, 40,
      defaultSpecs.systemMax, defaultSpecs.systemMax + 1, NaN }

\* the input handler runs on the fields as the user has left them
InputWith(fields) ==
    /\ call.op = "none"
    /\ fields # form.fields
    /\ form' = OnInput([form EXCEPT !.fields = fields])
    /\ UNCHANGED <<physicsVars, bufferVars, twinVars, pageVars, mainSpecs, engineVars>>

\* the user edits one field
InputEvent ==
    \E key \in editableKeys, value \in FieldValues :
        /\ form.fields[key] # NoInput
        /\ InputWith([form.fields EXCEPT ![key] = value])

\* the user opens the sidebar
OpenCall ==
    /\ call.op = "none"
    /\ form' = OpenSidebar(form, mainSpecs)
    /\ form' # form
    /\ UNCHANGED <<physicsVars, bufferVars, twinVars, pageVars, mainSpecs, engineVars>>

\* the user submits the form: the handler's verdict is kept in call until it
\* returns
SubmitCall ==
    /\ call.op = "none"
    /\ LET r == OnSubmit(form, mainSpecs)
       IN  /\ posted + Len(r.send) <= MaxMessages
           /\ call' = [op |-> "submit", values |-> ValuesOf(form), err |-> r.err]
           /\ mainSpecs' = r.specs
           /\ inbox' = inbox \o r.send
           /\ posted' = posted + Len(r.send)
    /\ UNCHANGED <<dff, sig, lastOutside, lastSampled, resetRun, bufferVars, twinVars, pageVars, form, engine, step,
                   rawPhase, frames>>

\* the user clicks restore defaults
RestoreCall ==
    /\ call.op = "none"
    /\ posted < MaxMessages
    /\ LET r == OnRestoreDefaults(form, mainSpecs)
       IN  /\ form' = r.form
           /\ mainSpecs' = r.specs
           /\ inbox' = inbox \o r.send
           /\ posted' = posted + Len(r.send)
    /\ UNCHANGED <<physicsVars, bufferVars, twinVars, pageVars, engine, step, rawPhase, frames>>

\* a page with any of the five inputs missing, the others empty
InitForm ==
    /\ dff = NewDFlipFlop
    /\ sig = NewSignal(VoltageSpecs.outputHighMin, VoltageSpecs.outputLowMax,
                       VoltageSpecs.smoothingFactor)
    /\ call = NoCall
    /\ lastOutside = "none"
    /\ lastSampled = << >>
    /\ resetRun = NoRun
    /\ twin = NewEngine
    /\ sampledUndefined = FALSE
    /\ render = NewRender
    /\ app = NewApp
    /\ engine = NewEngine
    /\ step = NoStep
    /\ rawPhase = 0
    /\ inbox = << >>
    /\ posted = 0
    /\ frames = 0
    /\ buf = NewBuffer(Simulation.bufferLength, 0)
    /\ pushed = NoSamples(0)
    /\ mainSpecs = VoltageSpecs
    /\ \E fields \in [editableKeys -> {NaN, NoInput}] :
           form = [NewForm EXCEPT !.fields = fields]

NextForm == InputEvent \/ OpenCall

\* the settings form alone: the user opens the sidebar and edits the fields
SpecForm == InitForm /\ [][NextForm]_vars

----------------------------------------------------------------------------
(* Callers of the waveform buffer *)

\* largest exponent of the lengths the free-standing buffer is built with
MaxLengthBits == 2

\* largest number of pushes between two resets
MaxPushes == 5

\* buffer lengths: the powers of two that push's mask presupposes
BufferLengths == {2^b : b \in 0..MaxLengthBits}

\* fill values: the default argument and the default outputLowMax
FillValues == {0, VoltageSpecs.outputLowMax}

\* one tick's d, clk and q voltages
Samples == {<<35, 40, 38>>, <<6, 0, 2>>, <<35, 0, 39>>}

\* buffer.push(d, clk, q) for one tick
PushCall ==
    /\ Len(pushed.samples) < MaxPushes
    /\ \E s \in Samples :
           /\ buf' = Push(buf, s[1], s[2], s[3])
           /\ pushed' = [pushed EXCEPT !.samples = Append(@, s)]
    /\ UNCHANGED <<physicsVars, mainVars, engineVars, twinVars, pageVars>>

\* buffer.reset(fillValue)
ResetCall ==
    /\ pushed.samples # << >>
    /\ \E f \in FillValues :
           /\ buf' = Reset(buf, f)
           /\ pushed' = NoSamples(f)
    /\ UNCHANGED <<physicsVars, mainVars, engineVars, twinVars, pageVars>>

InitBuffer ==
    /\ dff = NewDFlipFlop
    /\ sig = NewSignal(VoltageSpecs.outputHighMin, VoltageSpecs.outputLowMax,
                       VoltageSpecs.smoothingFactor)
    /\ call = NoCall
    /\ lastOutside = "none"
    /\ lastSampled = << >>
    /\ resetRun = NoRun
    /\ twin = NewEngine
    /\ sampledUndefined = FALSE
    /\ render = NewRender
    /\ app = NewApp
    /\ engine = NewEngine
    /\ step = NoStep
    /\ rawPhase = 0
    /\ inbox = << >>
    /\ posted = 0
    /\ frames = 0
    /\ \E length \in BufferLengths, f \in FillValues :
           /\ buf = NewBuffer(length, f)
           /\ pushed = NoSamples(f)
    /\ mainSpecs = VoltageSpecs
    /\ form = NewForm

NextBuffer == PushCall \/ ResetCall

\* a WaveformBuffer alone: samples are pushed and the buffer is reset
SpecBuffer == InitBuffer /\ [][NextBuffer]_vars

\* specs the user types into the form: two that validate accepts, one with
\* logicLowMax raised onto logicHighMin, one with outputHighMax above
\* systemMax, and one with a field left empty
Submissions ==
    { [ logicHighMin |-> 24, logicLowMax |-> 8, outputHighMin |-> 40,
        outputHighMax |-> 44, outputLowMax |-> 6 ],
      [ logicHighMin |-> 30, logicLowMax |-> 10, outputHighMin |-> 40,
        outputHighMax |-> 50, outputLowMax |-> 8 ],
      [ logicHighMin |-> 24, logicLowMax |-> 24, outputHighMin |-> 40,
        outputHighMax |-> 44, outputLowMax |-> 6 ],
      [ logicHighMin |-> 30, logicLowMax |-> 10, outputHighMin |-> 40,
        outputHighMax |-> 52, outputLowMax |-> 8 ],
      [ logicHighMin |-> 24, logicLowMax |-> NaN, outputHighMin |-> 40,
        outputHighMax |-> 44, outputLowMax |-> 6 ] }

\* the user fills in the form with one of Submissions
FillForm == \E fields \in Submissions : InputWith(fields)

\* the user clicks the toggle of D: of the control panel's messages the one
\* that changes what the settings snap the D signal to
SendParam ==
    /\ call.op = "none"
    /\ posted < MaxMessages
    /\ \E msg \in {m \in ParamMessages : m.key = "toggleD"} :
           inbox' = Append(inbox, msg)
    /\ posted' = posted + 1
    /\ UNCHANGED <<physicsVars, bufferVars, twinVars, pageVars, mainVars, engine, step, rawPhase, frames>>

\* the browser runs the frame callback one frame at 60 fps after the last
SteadyFrame ==
    /\ step.op = "none"
    /\ engine.animationFrameId # NoFrame
    /\ frames < MaxFrames
    /\ LoopWith(engine.lastFrameTime + 1)
    /\ UNCHANGED pageVars

\* the page and its worker: the user edits, submits and restores the settings
\* and moves the controls while the worker runs its frames
NextSettings ==
    \/ FillForm \/ OpenCall \/ SubmitCall \/ RestoreCall \/ Return \/ SendParam
    \/ HandleMessage \/ StartCall \/ SteadyFrame \/ StepReturn

SpecSettings == Init /\ [][NextSettings]_vars

----------------------------------------------------------------------------
(* Callers of the engine: a steady run *)

\* the noise slider at 0: the engine after updateParam("noise", 0)
InitFollow ==
    /\ dff = NewDFlipFlop
    /\ sig = NewSignal(VoltageSpecs.outputHighMin, VoltageSpecs.outputLowMax,
                       VoltageSpecs.smoothingFactor)
    /\ call = NoCall
    /\ lastOutside = "none"
    /\ lastSampled = << >>
    /\ resetRun = NoRun
    /\ twin = NewEngine
    /\ sampledUndefined = FALSE
    /\ render = NewRender
    /\ app = NewApp
    /\ engine = UpdateParam(NewEngine, "noise", 0)
    /\ step = NoStep
    /\ rawPhase = 0
    /\ inbox = << >>
    /\ posted = 0
    /\ frames = 0
    /\ buf = NewBuffer(Simulation.bufferLength, 0)
    /\ pushed = NoSamples(0)
    /\ mainSpecs = VoltageSpecs
    /\ form = NewForm

\* a tick of 1/60 s
SteadyTick ==
    /\ step.op = "none"
    /\ StepWith(1)

\* the D button is clicked between two ticks
ToggleD == ParamUpdate("toggleD", BOOLEAN)

NextFollow == SteadyTick \/ StepReturn \/ ToggleD

\* a tick is in progress
Ticking == step.op = "stepPhysics"

\* the animation loop ticks for ever at 60 fps and every tick returns; D is
\* toggled at any time or never.  SteadyTick is enabled exactly when no tick
\* is in progress, so its weak fairness, given that of StepReturn, is that a
\* tick is in progress again and again.
SpecFollow ==
    InitFollow /\ [][NextFollow]_vars /\ []<>Ticking /\ WF_vars(StepReturn)

----------------------------------------------------------------------------
(* Callers of the engine: two engines side by side *)

\* an engine whose three signals all have noiseLevel 0: the noise slider at 0
\* for D and Q, and CLK's public noiseLevel field set to 0 by the caller
QuietEngine ==
    [UpdateParam(NewEngine, "noise", 0) EXCEPT !.signalClk.noiseLevel = 0]

InitTwin ==
    /\ dff = NewDFlipFlop
    /\ sig = NewSignal(VoltageSpecs.outputHighMin, VoltageSpecs.outputLowMax,
                       VoltageSpecs.smoothingFactor)
    /\ call = NoCall
    /\ lastOutside = "none"
    /\ lastSampled = << >>
    /\ resetRun = NoRun
    /\ twin = QuietEngine
    /\ sampledUndefined = FALSE
    /\ render = NewRender
    /\ app = NewApp
    /\ engine = QuietEngine
    /\ step = NoStep
    /\ rawPhase = 0
    /\ inbox = << >>
    /\ posted = 0
    /\ frames = 0
    /\ buf = NewBuffer(1, 0)
    /\ pushed = NoSamples(0)
    /\ mainSpecs = defaultSpecs
    /\ form = NewForm

\* the pairs of deviates the second engine draws while the first draws
\* StepDraws: the same as the first, or others
TwinDraws == {<<0, 0>>, <<MaxDeviate, -MaxDeviate>>}

\* the rising edge of a tick sampled D inside [logicLowMax, logicHighMin]
SampledInZone(r, specs) == r.edge /\ IsMetastable(r.seen.dVoltage, specs)

\* both engines run stepPhysics(dt) with the same dt, each with its own
\* noise draws and its own coin
TwinTick ==
    /\ step.op = "none"
    /\ frames < MaxFrames
    /\ frames' = frames + 1
    /\ \E dt \in FrameTimes,
          a \in StepDraws \X StepDraws \X StepDraws,
          b \in TwinDraws \X TwinDraws \X TwinDraws :
        \A ea \in {StepSignals(engine, dt, a[1], a[2])},
           eb \in {StepSignals(twin, dt, b[1], b[2])} :
            \E ca \in Coins(ea.dff, ea.signalD.currentValue,
                             ea.signalClk.currentValue, ea.resetActive, ea.specs),
               cb \in Coins(eb.dff, eb.signalD.currentValue,
                             eb.signalClk.currentValue, eb.resetActive, eb.specs) :
                \A ra \in {StepFlipFlop(ea, dt, ca, a[3])},
                   rb \in {StepFlipFlop(eb, dt, cb, b[3])} :
                    /\ engine' = ra.engine
                    /\ twin' = rb.engine
                    /\ step' = [ op |-> "stepPhysics", dt |-> dt, elapsed |-> dt,
                                 edge |-> ra.edge, seen |-> ra.seen,
                                 sample |-> ra.sample, params |-> ParamsOf(engine) ]
                    /\ sampledUndefined' =
                         \/ sampledUndefined
                         \/ SampledInZone(ra, ea.specs)
                         \/ SampledInZone(rb, eb.specs)
                    /\ rawPhase' =
                         (rawPhase + PhaseAdvance(engine.clockSpeed, dt)) % TwoPi
    /\ UNCHANGED <<physicsVars, bufferVars, mainVars, pageVars, inbox, posted>>

\* the control-panel and settings messages that leave every noiseLevel at 0
TwinMessages == ParamMessages \cup SettingsMessages

\* the same message is handled by both engines between two ticks
TwinMessage ==
    /\ step.op = "none"
    /\ posted < MaxMessages
    /\ posted' = posted + 1
    /\ \E msg \in TwinMessages :
        /\ engine' = OnMessage(engine, msg)
        /\ twin' = OnMessage(twin, msg)
        /\ rawPhase' = IF msg.type = "SETTINGS_UPDATE" THEN 0 ELSE rawPhase
    /\ UNCHANGED <<physicsVars, bufferVars, mainVars, pageVars, step, inbox,
                   frames, sampledUndefined>>

NextTwin == TwinTick \/ TwinMessage \/ StepReturn

\* two engines started in the same quiet state and given the same ticks and
\* messages
SpecTwin == InitTwin /\ [][NextTwin]_vars

----------------------------------------------------------------------------
(* The worker's renderer *)

\* clicks on the two mode buttons
MaxClicks == 3

RendererModes == {"standard", "experimental"}

\* switchRenderer(mode): the old renderer, if any, is detached and a new one
\* of the mode is created and attached
SwitchRenderer(r, mode) ==
    [r EXCEPT !.attached = (IF r.renderer # "none" THEN @ - 1 ELSE @) + 1,
              !.renderer = mode]

\* the user clicks btnStd or btnExp: the main thread posts SWITCH_RENDERER
ClickMode ==
    /\ render.clicks < MaxClicks
    /\ \E mode \in RendererModes :
        render' = [render EXCEPT
                      !.inbox = Append(@, [type |-> "SWITCH_RENDERER",
                                           mode |-> mode]),
                      !.lastSwitch = mode,
                      !.clicks = @ + 1]
    /\ UNCHANGED <<physicsVars, bufferVars, twinVars, mainVars, engineVars, app>>

\* self.onmessage on INIT, up to its await: pixiHost.init is under way
HandleInit ==
    /\ step.op = "none"
    /\ render.inbox # << >>
    /\ Head(render.inbox).type = "INIT"
    /\ render' = [render EXCEPT !.inbox = Tail(@), !.init = "awaiting"]
    /\ UNCHANGED <<physicsVars, bufferVars, twinVars, mainVars, engineVars, app>>

\* self.onmessage on SWITCH_RENDERER. Without sizes switchRenderer first reads
\* pixiHost.appWaveform.screen: on an Application whose init has not finished
\* the read either throws, ending the handler, or goes through
HandleSwitch ==
    /\ step.op = "none"
    /\ render.inbox # << >>
    /\ Head(render.inbox).type = "SWITCH_RENDERER"
    /\ \E throws \in IF render.init = "done" THEN {FALSE} ELSE BOOLEAN :
        render' = IF throws
                  THEN [render EXCEPT !.inbox = Tail(@)]
                  ELSE [SwitchRenderer(render, Head(render.inbox).mode)
                           EXCEPT !.inbox = Tail(@)]
    /\ UNCHANGED <<physicsVars, bufferVars, twinVars, mainVars, engineVars, app>>

\* pixiHost.init has resolved: initRenderer goes on to
\* switchRenderer("standard", w, h, dh) and the INIT handler to engine.start()
InitResume ==
    /\ step.op = "none"
    /\ render.init = "awaiting"
    /\ render' = [SwitchRenderer(render, "standard") EXCEPT !.init = "done"]
    /\ IF engine.animationFrameId = NoFrame
       THEN LoopWith(0)
       ELSE UNCHANGED <<physicsVars, bufferVars, twinVars, mainVars, engineVars>>
    /\ UNCHANGED app

\* the page's mode buttons and the worker's handlers of INIT and
\* SWITCH_RENDERER
NextRender == ClickMode \/ HandleInit \/ HandleSwitch \/ InitResume \/ StepReturn

SpecRender == Init /\ [][NextRender]_vars

----------------------------------------------------------------------------
(* The main thread's mirror of D *)

\* the click handler of btnToggleD: localTargetLogicD flips and
\* sendParam("toggleD", localTargetLogicD === 1) posts the new level
ToggleClick ==
    /\ posted < MaxMessages
    /\ posted' = posted + 1
    /\ \A level \in {IF app.localTargetLogicD = 1 THEN 0 ELSE 1} :
        \A msg \in {[type |-> "PARAM_UPDATE", key |-> "toggleD",
                      value |-> (level = 1)]} :
            /\ app' = [app EXCEPT !.localTargetLogicD = level,
                                  !.sent = Append(@, msg)]
            /\ inbox' = Append(inbox, msg)
    /\ UNCHANGED <<physicsVars, bufferVars, twinVars, mainVars, engine, step,
                   rawPhase, frames, render>>

\* what the page sends besides toggleD: settings and the reset button
OtherMessages ==
    SettingsMessages \cup {m \in ParamMessages : m.key = "reset"}

\* updateSettings or sendParam posts a message other than toggleD
OtherSend ==
    /\ posted < MaxMessages
    /\ posted' = posted + 1
    /\ \E msg \in OtherMessages :
        /\ app' = [app EXCEPT !.sent = Append(@, msg)]
        /\ inbox' = Append(inbox, msg)
    /\ UNCHANGED <<physicsVars, bufferVars, twinVars, mainVars, engine, step,
                   rawPhase, frames, render>>

\* self.onmessage runs on the oldest message, between two frames
HandleSent ==
    /\ step.op = "none"
    /\ inbox # << >>
    /\ engine' = OnMessage(engine, Head(inbox))
    /\ inbox' = Tail(inbox)
    /\ app' = [app EXCEPT !.handled = Append(@, Head(inbox))]
    /\ rawPhase' = IF Head(inbox).type = "SETTINGS_UPDATE" THEN 0 ELSE rawPhase
    /\ UNCHANGED <<physicsVars, bufferVars, twinVars, mainVars, step, posted,
                   frames, render>>

\* the page's toggle and settings, the worker's message handler and frames
NextMirror ==
    ToggleClick \/ OtherSend \/ HandleSent \/ FrameBegin \/ FrameEnd \/ FrameReturn

SpecMirror == Init /\ [][NextMirror]_vars

----------------------------------------------------------------------------
(* Properties of DFlipFlop.process and Signal.update *)

\* the level a clock voltage reads as, given the level held so far
LevelOf(voltage, held) ==
    IF voltage > VoltageSpecs.logicHighMin THEN 1
    ELSE IF voltage < VoltageSpecs.logicLowMax THEN 0
    ELSE held

InDeadZone(voltage) ==
    /\ voltage >= VoltageSpecs.logicLowMax
    /\ voltage <= VoltageSpecs.logicHighMin

\* the deviate the next update of q uses
NextNoise(q) ==
    IF q.noiseCache = NoCache THEN Deviates ELSE {q.noiseCache[1]}

\* q2.currentValue is one filter step of q toward the voltage of `target`
FilteredToward(q, target, q2) ==
    \E n \in NextNoise(q) :
        LET level == IF target = 1 THEN q.baseHigh ELSE q.baseLow
            moved == q.currentValue
                       + Scale(level + Round(n * q.noiseLevel, 5) - q.currentValue,
                               q.smoothingFactor)
        IN  q2.currentValue =
                IF moved > VoltageSpecs.systemMax THEN VoltageSpecs.systemMax
                ELSE IF moved < VoltageSpecs.clampMin THEN VoltageSpecs.clampMin
                ELSE moved

\* C1: after a process call with resetActive = true the output target logic is
\* 0, also when the call had a rising clock edge with D high.
ResetWins ==
    (call.op = "process" /\ call.resetActive) => dff.qSignal.targetLogic = 0

ResetWinsOverEdge ==
    /\ call.op = "process" /\ call.resetActive
    /\ call.preLast = 0 /\ call.preTarget = 1
    /\ call.clkVoltage > VoltageSpecs.logicHighMin
    /\ call.dVoltage > VoltageSpecs.logicHighMin
    /\ dff.qSignal.targetLogic = 0

\* C2: the output target logic changes only in a process call that had
\* resetActive = true (new value 0) or a rising edge (lastClkState 0 before the
\* call, clock read as 1 in it); every other step leaves it unchanged.
TargetChangesOnlyOnEdgeOrReset ==
    [][ dff'.qSignal.targetLogic # dff.qSignal.targetLogic =>
          /\ call'.op = "process"
          /\ \/ call'.resetActive /\ dff'.qSignal.targetLogic = 0
             \/ /\ ~call'.resetActive
                /\ dff.lastClkState = 0
                /\ LevelOf(call'.clkVoltage, dff.lastClkState) = 1 ]_vars

HoldsWithClockHigh ==
    /\ call.op = "process" /\ ~call.resetActive /\ ~call.edge
    /\ call.clkVoltage > VoltageSpecs.logicHighMin
    /\ call.dVoltage > VoltageSpecs.logicHighMin
    /\ call.preTarget = 0
    /\ dff.qSignal.targetLogic = 0

\* C3: a call with resetActive = false detects a rising edge exactly when its
\* clock voltage is above logicHighMin and the most recent earlier non-reset
\* call whose clock voltage lay outside [logicLowMax, logicHighMin] had it
\* below logicLowMax, or there was none.
EdgeIffLowThenHigh ==
    [][ (call'.op = "process" /\ ~call'.resetActive) =>
          (call'.edge <=>
              /\ call'.clkVoltage > VoltageSpecs.logicHighMin
              /\ lastOutside \in {"none", "low"}) ]_vars

NoSecondEdgeWhileHigh ==
    /\ call.op = "process" /\ ~call.resetActive /\ ~call.edge
    /\ call.clkVoltage > VoltageSpecs.logicHighMin
    /\ call.preLast = 1
    /\ lastOutside = "high"

\* C4: after a process call with resetActive = false, lastClkState is 1 if the
\* clock voltage was above logicHighMin, 0 if it was below logicLowMax, and its
\* value before the call otherwise.
CommitsDiscriminatedClock ==
    [][ (call'.op = "process" /\ ~call'.resetActive) =>
          dff'.lastClkState = LevelOf(call'.clkVoltage, dff.lastClkState) ]_vars

HeldHighInDeadZone ==
    /\ call.op = "process" /\ ~call.resetActive
    /\ InDeadZone(call.clkVoltage)
    /\ call.preLast = 1
    /\ dff.lastClkState = 1

\* C5: with reset inactive, a rising edge with D above logicHighMin leaves the
\* target logic 1 and one with D below logicLowMax leaves it 0, and the value
\* sampled stays the target logic until the next rising edge or a reset.
EdgeTriggeredSampling ==
    /\ (call.op = "process" /\ ~call.resetActive /\ call.edge) =>
          /\ call.dVoltage > VoltageSpecs.logicHighMin
                => dff.qSignal.targetLogic = 1
          /\ call.dVoltage < VoltageSpecs.logicLowMax
                => dff.qSignal.targetLogic = 0
    /\ lastSampled # << >> => dff.qSignal.targetLogic = lastSampled[1]

SampledOnePersistsWithDLow ==
    /\ call.op = "process" /\ ~call.resetActive /\ ~call.edge
    /\ call.dVoltage < VoltageSpecs.logicLowMax
    /\ lastSampled = <<1>>
    /\ dff.qSignal.targetLogic = 1

\* C6: before any call with lastClkState = 0, a rising edge with D in the
\* undefined zone can leave the target logic 0 and can leave it 1, for the same
\* inputs, and lastClkState is 1 after it either way.
MetastableEitherOutcome ==
    /\ (call.op = "none" /\ dff.lastClkState = 0) =>
          \A dVoltage \in {v \in Voltages : InDeadZone(v)},
             clkVoltage \in {v \in Voltages : v > VoltageSpecs.logicHighMin},
             outcome \in {0, 1} :
               ENABLED ( /\ ProcessWith(dVoltage, clkVoltage, FALSE)
                         /\ call'.edge
                         /\ dff'.qSignal.targetLogic = outcome
                         /\ dff'.lastClkState = 1 )
    /\ (call.op = "process" /\ call.edge) => dff.lastClkState = 1

MetastableResolvedHigh ==
    /\ call.op = "process" /\ ~call.resetActive /\ call.edge
    /\ InDeadZone(call.dVoltage)
    /\ call.preTarget = 0
    /\ dff.qSignal.targetLogic = 1
    /\ dff.lastClkState = 1

ResetBypassesClockedLogic ==
    [][ (call'.op = "process" /\ call'.resetActive) =>
          /\ dff'.lastClkState = dff.lastClkState
          /\ ~call'.edge
          /\ call'.updates = 1
          /\ dff'.qSignal.targetLogic = 0
          /\ FilteredToward(dff.qSignal, 0, dff'.qSignal)
          /\ dff'.qSignal =
               [dff.qSignal EXCEPT !.targetLogic = 0,
                                   !.currentValue = dff'.qSignal.currentValue,
                                   !.noiseCache = dff'.qSignal.noiseCache] ]_vars

ResetDuringHighOutput ==
    /\ call.op = "process" /\ call.resetActive
    /\ call.preTarget = 1 /\ call.preLast = 1
    /\ call.clkVoltage < VoltageSpecs.logicLowMax
    /\ dff.lastClkState = 1
    /\ dff.qSignal.targetLogic = 0
    /\ call.updates = 1

\* C9: a process call performs exactly one update of qSignal, made with the
\* target logic the call decided, and returns currentValue as that update
\* left it.
UpdateLastWithDecidedTarget ==
    [][ call'.op = "process" =>
          /\ call'.updates = 1
          /\ call'.ret = dff'.qSignal.currentValue
          /\ FilteredToward(dff.qSignal, dff'.qSignal.targetLogic,
                            dff'.qSignal) ]_vars

EdgeDrivesReturnedVoltage ==
    /\ call.op = "process" /\ ~call.resetActive /\ call.edge
    /\ call.preTarget = 0
    /\ dff.qSignal.targetLogic = 1
    /\ call.updates = 1
    /\ call.ret = dff.qSignal.currentValue
    /\ call.ret > dff.qSignal.baseLow + 10

\* C10: after every update of a Signal, whatever its base levels, smoothing
\* factor, noise level, target logic and previous value, currentValue lies in
\* [clampMin, systemMax].
ClampingInvariant ==
    call.op = "update" =>
        /\ VoltageSpecs.clampMin <= sig.currentValue
        /\ sig.currentValue <= VoltageSpecs.systemMax

ClampedByNoiseAtSystemMax ==
    /\ call.op = "update"
    /\ sig.currentValue = VoltageSpecs.systemMax
    /\ sig.baseHigh < VoltageSpecs.systemMax
    /\ sig.noiseLevel > 0

Abs(x) == IF x < 0 THEN -x ELSE x

InsideClamp(v) == VoltageSpecs.clampMin <= v /\ v <= VoltageSpecs.systemMax

\* the voltage sig is heading for
SigTarget == IF sig.targetLogic = 1 THEN sig.baseHigh ELSE sig.baseLow

\* the gap between s and its target is below the resolution of one filter step
Settled(s) ==
    LET targetVoltage == IF s.targetLogic = 1 THEN s.baseHigh ELSE s.baseLow
    IN  2 * Abs(s.currentValue - targetVoltage) * s.smoothingFactor < 100

SigSettled == \E s \in {sig} : Settled(s)

\* the premises of convergence
Quiet ==
    /\ sig.noiseLevel = 0
    /\ InsideClamp(SigTarget)
    /\ sig.smoothingFactor \in 1..100

QuietLow == Quiet /\ sig.targetLogic = 0

QuietHigh == Quiet /\ sig.targetLogic = 1

----------------------------------------------------------------------------
(* Properties of the engine's tick *)

\* the three signals of the engine
SignalsOf(e) == {e.signalD, e.signalClk, e.dff.qSignal}

RECURSIVE UpdateOver(_, _, _)
UpdateOver(s, dts, specs) ==
    IF dts = << >> THEN s
    ELSE UpdateOver(UpdateDt(s, Head(dts), 0, 0, specs), Tail(dts), specs)

\* C13: with noise 0 and a constant targetLogic the voltage a signal reaches
\* after 0.1 s is the same whether the 0.1 s are one tick or six ticks of
\* 1/60 s.
FrameRateIndependentFilter ==
    step.op = "none" =>
        \A s \in SignalsOf(engine) :
            LET quiet == [s EXCEPT !.noiseLevel = 0, !.noiseCache = NoCache]
                frame == Second \div Simulation.baseFrameRate
            IN  UpdateOver(quiet, << Second \div 10 >>, engine.specs).currentValue
                  = UpdateOver(quiet, << frame, frame, frame, frame, frame, frame >>,
                               engine.specs).currentValue

\* C14: a tick first advances and wraps clockPhase, derives the clock's
\* targetLogic from it and updates CLK and D, each by one filter step; then
\* process is called with the two voltages just updated and the current
\* resetActive, and the sample pushed is (D voltage, CLK voltage, Q voltage)
\* as that tick leaves them, its D and CLK being the ones process saw.
TickOrder ==
    [][ /\ step'.op # step.op =>
              << step.op, step'.op >> \in
                  { <<"none", "signals">>, <<"signals", "stepPhysics">>,
                    <<"stepPhysics", "none">> }
        /\ (step.op = "none" /\ step'.op = "signals") =>
              /\ engine'.clockPhase \in
                    { engine.clockPhase + PhaseAdvance(engine.clockSpeed, step'.dt),
                      engine.clockPhase + PhaseAdvance(engine.clockSpeed, step'.dt)
                        - TwoPi }
              /\ engine'.signalClk.targetLogic =
                    IF SinPositive(engine'.clockPhase) THEN 1 ELSE 0
              /\ FilteredToward(engine.signalClk, engine'.signalClk.targetLogic,
                                engine'.signalClk)
              /\ FilteredToward(engine.signalD, engine.signalD.targetLogic,
                                engine'.signalD)
              /\ engine'.dff = engine.dff
        /\ (step.op = "signals" /\ step'.op = "stepPhysics") =>
              /\ engine'.signalD = engine.signalD
              /\ engine'.signalClk = engine.signalClk
              /\ step'.seen = [ dVoltage |-> engine.signalD.currentValue,
                                clkVoltage |-> engine.signalClk.currentValue,
                                resetActive |-> engine.resetActive ]
              /\ step'.sample = << step'.seen.dVoltage, step'.seen.clkVoltage,
                                   engine'.dff.qSignal.currentValue >>
              /\ engine'.dff.lastClkState =
                    IF engine.resetActive THEN engine.dff.lastClkState
                    ELSE IF step'.seen.clkVoltage > engine.specs.logicHighMin THEN 1
                    ELSE IF step'.seen.clkVoltage < engine.specs.logicLowMax THEN 0
                    ELSE engine.dff.lastClkState
              /\ engine.resetActive => engine'.dff.qSignal.targetLogic = 0
              /\ FilteredToward(engine.dff.qSignal,
                                engine'.dff.qSignal.targetLogic,
                                engine'.dff.qSignal) ]_vars

EdgeOnFreshVoltages ==
    /\ step.op = "stepPhysics"
    /\ step.edge
    /\ step.seen.clkVoltage > engine.specs.logicHighMin
    /\ step.seen.dVoltage > engine.specs.logicHighMin
    /\ step.sample = << engine.signalD.currentValue,
                        engine.signalClk.currentValue,
                        engine.dff.qSignal.currentValue >>
    /\ engine.dff.qSignal.targetLogic = 1
    /\ engine.dff.qSignal.currentValue > engine.dff.qSignal.baseLow

\* C15: after every tick the clock's targetLogic is 1 exactly when the phase
\* the tick produced lies strictly between 0 and pi modulo 2 pi; it is 0 when
\* the phase is exactly 0, pi or 2 pi.
ClockLevelFollowsSine ==
    step.op = "stepPhysics" =>
        LET p == engine.clockPhase % TwoPi
        IN  /\ engine.signalClk.targetLogic =
                  IF 0 < p /\ 2 * p < TwoPi THEN 1 ELSE 0
            /\ engine.clockPhase \in {0, TwoPi \div 2, TwoPi} =>
                  engine.signalClk.targetLogic = 0

ClockLowAtExactlyPi ==
    /\ step.op = "stepPhysics"
    /\ step.dt > 0
    /\ 2 * engine.clockPhase = TwoPi
    /\ engine.signalClk.targetLogic = 0

\* C16 as stated: after every tick 0 <= clockPhase < 2 pi.
PhaseBelowTwoPi ==
    step.op = "stepPhysics" =>
        (0 <= engine.clockPhase /\ engine.clockPhase < TwoPi)

\* C16: after every tick 0 <= clockPhase <= 2 pi, for every speed of the
\* slider and every dt up to 0.1 s; a phase of exactly 2 pi is not wrapped.
PhaseWithinTwoPi ==
    /\ 0 <= engine.clockPhase
    /\ engine.clockPhase <= TwoPi

PhaseExactlyTwoPi ==
    /\ step.op = "stepPhysics"
    /\ step.dt > 0
    /\ engine.clockPhase = TwoPi

\* C17: after every tick the clock's targetLogic is the one the sine of the
\* never-wrapped phase accumulator gives.
WrapKeepsClockLevel ==
    step.op = "stepPhysics" =>
        engine.signalClk.targetLogic =
            IF 0 < rawPhase /\ 2 * rawPhase < TwoPi THEN 1 ELSE 0

HighRightAfterWrap ==
    /\ step.op = "stepPhysics"
    /\ engine.clockPhase < engine.clockSpeed * step.dt
    /\ engine.clockPhase > 0
    /\ engine.signalClk.targetLogic = 1

\* C18: every tick moves the phase by clockSpeed * dt * baseFrameRate modulo
\* 2 pi, and ticking twice for a and b moves it as ticking once for a + b
\* does, so that under a constant clockSpeed the phase reached depends on the
\* ticks through the sum of their dt only.
PhaseAdvanceFrameRateIndependent ==
    /\ [][ (step.op = "none" /\ step'.op = "stepPhysics") =>
             ( engine'.clockPhase - engine.clockPhase
                 - (engine.clockSpeed * step'.dt * Simulation.baseFrameRate)
                     \div Second ) % TwoPi = 0 ]_vars
    /\ [](\A a \in DeltaTimes, b \in DeltaTimes :
             a + b \in DeltaTimes =>
               ( AdvancePhase(AdvancePhase(engine.clockPhase, engine.clockSpeed, a),
                              engine.clockSpeed, b)
                   - AdvancePhase(engine.clockPhase, engine.clockSpeed, a + b) )
                 % TwoPi = 0)

TwoFramesWrapped ==
    /\ step.op = "stepPhysics"
    /\ step.dt = 2
    /\ engine.clockSpeed > 0
    /\ engine.clockPhase < engine.clockSpeed * step.dt

\* C19: every dt the loop passes to stepPhysics lies in [0, 0.1 s], whatever
\* the non-decreasing frame timestamps are and however long a frame is
\* delayed, and the first frame after start gets dt = 0.
LoopDeltaTimeBounded ==
    step.op = "stepPhysics" =>
        /\ 0 <= step.dt
        /\ 10 * step.dt <= Second
        /\ frames = 1 => step.dt = 0

SuspendedTabClamped ==
    /\ step.op = "stepPhysics"
    /\ step.elapsed > Second
    /\ 10 * step.dt = Second

\* C20: no PARAM_UPDATE or SETTINGS_UPDATE handler runs between the start and
\* the end of a stepPhysics call, whenever the messages arrive: what the
\* handlers set (D's targetLogic, resetActive, clockSpeed, the noise levels,
\* VoltageSpecs and the base levels) changes only while no tick is running,
\* and is throughout a tick what it was when the tick started.
MessagesAppliedBetweenTicks ==
    /\ [][ ParamsOf(engine') # ParamsOf(engine) =>
             (step.op = "none" /\ step'.op = "none") ]_vars
    /\ [][ step'.op # "none" => ParamsOf(engine') = step'.params ]_vars

SettingsWaitDuringTick ==
    /\ step.op = "signals"
    /\ inbox # << >>
    /\ Head(inbox).type = "SETTINGS_UPDATE"
    /\ engine.signalD.currentValue # engine.signalD.baseLow
    /\ engine.specs = VoltageSpecs
    /\ step.params = ParamsOf(engine)

----------------------------------------------------------------------------
(* The undefined zone *)

\* logicLowMax <= v <= logicHighMin
InClosedZone(v, specs) == specs.logicLowMax <= v /\ v <= specs.logicHighMin

\* C28 as stated: process holds the clock level, and resolves a sampled D by
\* the coin, exactly when the voltage lies in the open interval (logicLowMax,
\* logicHighMin); a voltage on a threshold is classified like the voltages
\* beyond it.
UndefinedZoneIsOpen ==
    /\ \A v \in Voltages :
           /\ (Discriminate(v, 0, VoltageSpecs) # Discriminate(v, 1, VoltageSpecs))
                <=> (VoltageSpecs.logicLowMax < v /\ v < VoltageSpecs.logicHighMin)
           /\ (SampleD(v, 0, VoltageSpecs) # SampleD(v, 1, VoltageSpecs))
                <=> (VoltageSpecs.logicLowMax < v /\ v < VoltageSpecs.logicHighMin)
    /\ (call.op = "process" /\ ~call.resetActive) =>
           /\ dff.lastClkState =
                IF (VoltageSpecs.logicLowMax < call.clkVoltage /\ call.clkVoltage < VoltageSpecs.logicHighMin) THEN call.preLast
                ELSE IF call.clkVoltage >= VoltageSpecs.logicHighMin THEN 1 ELSE 0
           /\ (call.edge /\ ~(VoltageSpecs.logicLowMax < call.dVoltage /\ call.dVoltage < VoltageSpecs.logicHighMin)) =>
                dff.qSignal.targetLogic =
                    IF call.dVoltage >= VoltageSpecs.logicHighMin THEN 1 ELSE 0

\* C28, amended: process holds the clock level, and resolves a sampled D by
\* the coin, exactly when the voltage lies in the closed interval
\* [logicLowMax, logicHighMin]; only a voltage strictly above logicHighMin is
\* high and only one strictly below logicLowMax is low.
UndefinedZoneIsClosed ==
    /\ \A v \in Voltages :
           /\ (Discriminate(v, 0, VoltageSpecs) # Discriminate(v, 1, VoltageSpecs))
                <=> InClosedZone(v, VoltageSpecs)
           /\ (SampleD(v, 0, VoltageSpecs) # SampleD(v, 1, VoltageSpecs))
                <=> InClosedZone(v, VoltageSpecs)
    /\ (call.op = "process" /\ ~call.resetActive) =>
           /\ dff.lastClkState =
                IF InClosedZone(call.clkVoltage, VoltageSpecs) THEN call.preLast
                ELSE IF call.clkVoltage > VoltageSpecs.logicHighMin THEN 1 ELSE 0
           /\ (call.edge /\ ~InClosedZone(call.dVoltage, VoltageSpecs)) =>
                dff.qSignal.targetLogic =
                    IF call.dVoltage > VoltageSpecs.logicHighMin THEN 1 ELSE 0

\* a clock voltage of exactly logicHighMin after a low clock: the level is
\* held at 0 and no edge is detected
HeldLowAtLogicHighMin ==
    /\ call.op = "process"
    /\ ~call.resetActive
    /\ call.clkVoltage = VoltageSpecs.logicHighMin
    /\ call.preLast = 0
    /\ dff.lastClkState = 0
    /\ ~call.edge

----------------------------------------------------------------------------
(* Properties of the engine's parameters and settings *)

\* calls of updateParam: each key of the control panel with the values its
\* control sends, and a key the engine does not know
ParamCalls ==
    ({"toggleD", "reset"} \X BOOLEAN)
      \cup ({"noise"} \X NoisePercents)
      \cup ({"speed"} \X Speeds)
      \cup {<<"frequency", 5>>}

\* the engine with the target of key blanked out
WithoutTarget(e, key) ==
    CASE key = "toggleD" -> [e EXCEPT !.signalD.targetLogic = 0]
      [] key = "reset" -> [e EXCEPT !.resetActive = FALSE]
      [] key = "noise" -> [e EXCEPT !.signalD.noiseLevel = 0,
                                    !.dff.qSignal.noiseLevel = 0]
      [] key = "speed" -> [e EXCEPT !.clockSpeed = 0]
      [] OTHER -> e

\* C21: in every reachable state of the worker, a call of updateParam sets
\* the target of its key to the value given (toggleD: D's targetLogic, reset:
\* resetActive, speed: clockSpeed = value * clockSpeedFactor, noise: the
\* noiseLevel of D and of Q) and leaves every other field of the engine as it
\* was; a call with an unknown key leaves the engine as it was.
UpdateParamChangesOnlyItsTarget ==
    \A c \in ParamCalls :
        \A after \in {UpdateParam(engine, c[1], c[2])} :
            /\ WithoutTarget(after, c[1]) = WithoutTarget(engine, c[1])
            /\ c[1] = "toggleD" =>
                 after.signalD.targetLogic = (IF c[2] THEN 1 ELSE 0)
            /\ c[1] = "reset" => after.resetActive = c[2]
            /\ c[1] = "speed" =>
                 after.clockSpeed = c[2] * Simulation.clockSpeedFactor
            /\ c[1] = "noise" =>
                 /\ after.signalD.noiseLevel = Scale(c[2], Simulation.maxNoiseLevel)
                 /\ after.dff.qSignal.noiseLevel =
                      Scale(Scale(c[2], Simulation.maxNoiseLevel),
                            Simulation.outputNoiseRatio)
            /\ c[1] = "frequency" => after = engine

\* the worker has handled a toggleD message in the middle of a run: D's target
\* is high while the clock phase, the voltages and the buffer have moved
ToggledDMidRun ==
    /\ engine.signalD.targetLogic = 1
    /\ engine.clockPhase > 0
    /\ engine.signalClk.currentValue > 0
    /\ engine.dff.lastClkState = 1
    /\ inbox = << >>

\* C22: in every reachable state of the engine, the noise level of Q is
\* outputNoiseRatio times the noise level of D.
OutputNoiseIsRatioOfInput ==
    engine.dff.qSignal.noiseLevel =
        Scale(engine.signalD.noiseLevel, Simulation.outputNoiseRatio)

\* the step is self.onmessage handling a SETTINGS_UPDATE message
HandlesSettings ==
    /\ inbox # << >>
    /\ inbox' = Tail(inbox)
    /\ Head(inbox).type = "SETTINGS_UPDATE"

\* C23: when applySettings has run, VoltageSpecs holds the fields sent, the
\* base levels are those derived from it (D: (logicHighMin + systemMax) / 2
\* and logicLowMax / 2, CLK: outputHighMax and 0, Q: (outputHighMin +
\* outputHighMax) / 2 and outputLowMax / 2), each signal's voltage is its
\* base level for its target logic, and clockPhase is 0.
SettingsRederiveAndSnap ==
    [][ HandlesSettings =>
          LET specs == engine'.specs
              d == engine'.signalD
              clk == engine'.signalClk
              q == engine'.dff.qSignal
          IN  /\ specs = Assign(engine.specs, Head(inbox).value)
              /\ 2 * d.baseHigh = specs.logicHighMin + specs.systemMax
              /\ 2 * d.baseLow = specs.logicLowMax
              /\ clk.baseHigh = specs.outputHighMax
              /\ clk.baseLow = 0
              /\ 2 * q.baseHigh = specs.outputHighMin + specs.outputHighMax
              /\ 2 * q.baseLow = specs.outputLowMax
              /\ \A s \in {d, clk, q} :
                     s.currentValue =
                         IF s.targetLogic = 1 THEN s.baseHigh ELSE s.baseLow
              /\ engine'.clockPhase = 0 ]_vars

\* applySettings has just run with D, CLK and Q all targeting high: the three
\* voltages stand at the new high levels and the phase is back at 0
SnappedToNewHighLevels ==
    /\ engine.specs.logicHighMin # VoltageSpecs.logicHighMin
    /\ engine.clockPhase = 0
    /\ frames > 0
    /\ step.op = "none"
    /\ \A s \in SignalsOf(engine) :
           s.targetLogic = 1 /\ s.currentValue = s.baseHigh

\* the five editable fields of a VoltageSpecs
Editable(specs) == [key \in editableKeys |-> specs[key]]

\* the configurations that can take effect whole: the defaults and the
\* submissions that validate accepts
WholeSpecs ==
    {Editable(defaultSpecs)} \cup {s \in Submissions : Validate(s) = Null}

\* the six base levels applySettings and the constructor derive from specs
DerivedBaseLevels(specs) ==
    << (specs.logicHighMin + specs.systemMax) \div 2, specs.logicLowMax \div 2,
       specs.outputHighMax, 0,
       (specs.outputHighMin + specs.outputHighMax) \div 2,
       specs.outputLowMax \div 2 >>

\* C24: a submission that validate rejects changes nothing on the main thread
\* or in the worker and posts nothing; one it accepts sets the five fields of
\* the main thread's VoltageSpecs and posts them in one SETTINGS_UPDATE; the
\* worker takes the five fields and the base levels together when it handles
\* the message and at no other step, so at every step, ticks included, its
\* VoltageSpecs is one whole configuration with the base levels derived from it.
SubmissionAllOrNothing ==
    [][ /\ (call.op = "none" /\ call'.op = "submit") =>
             LET values == call'.values
             IN  IF Validate(values) # Null
                 THEN /\ mainSpecs' = mainSpecs
                      /\ engine' = engine
                      /\ inbox' = inbox
                 ELSE /\ DOMAIN values = editableKeys
                      /\ Editable(mainSpecs') = values
                      /\ mainSpecs' = Assign(mainSpecs, values)
                      /\ inbox' = Append(inbox, [type |-> "SETTINGS_UPDATE",
                                                 key |-> "settings",
                                                 value |-> values])
        /\ HandlesSettings =>
             Editable(engine'.specs) = Editable(Head(inbox).value)
        /\ ~HandlesSettings => engine'.specs = engine.specs
        /\ Editable(engine'.specs) \in WholeSpecs
        /\ Editable(mainSpecs') \in WholeSpecs
        /\ ParamsOf(engine').baseLevels = DerivedBaseLevels(engine'.specs) ]_vars

\* with an accepted configuration in effect on both sides and frames run
\* under it, a submission has been rejected
RejectedAfterAccepted ==
    /\ call.op = "submit"
    /\ Validate(call.values) # Null
    /\ mainSpecs # defaultSpecs
    /\ engine.specs = mainSpecs
    /\ inbox = << >>
    /\ engine.clockPhase > 0

\* voltages just below, on and just above the two thresholds of specs
AroundThresholds(specs) ==
    { specs.logicLowMax + k : k \in -1..1 } \cup { specs.logicHighMin + k : k \in -1..1 }

\* C27: from every state in which the worker can handle a message, and for
\* any two different valid specs A and B, applying A, then B, then A again
\* leaves VoltageSpecs and the base levels of D, CLK and Q as they were after
\* the first A, and process classifies every voltage around the thresholds of
\* A and of B as it did then: the same clock level and the same undefined zone.
SettingsRoundTrip ==
    step.op = "none" =>
        \A A \in WholeSpecs :
            \A first \in {ApplySettings(engine, A)} :
                \A B \in WholeSpecs \ {A} :
                    \A between \in {ApplySettings(first, B)} :
                        \A again \in {ApplySettings(between, A)} :
                            /\ between.specs # first.specs
                            /\ again.specs = first.specs
                            /\ ParamsOf(again).baseLevels = ParamsOf(first).baseLevels
                            /\ \A v \in AroundThresholds(first.specs)
                                          \cup AroundThresholds(between.specs) :
                                   /\ IsMetastable(v, again.specs)
                                        = IsMetastable(v, first.specs)
                                   /\ \A held \in {0, 1} :
                                          Discriminate(v, held, again.specs)
                                            = Discriminate(v, held, first.specs)

\* the round trip under way in the worker: a submitted configuration is in
\* effect, frames have run under it, and the restore-defaults message that
\* brings the first configuration back waits in the queue
RestorePendingAfterSubmission ==
    /\ step.op = "none"
    /\ engine.specs # defaultSpecs
    /\ engine.clockPhase > 0
    /\ inbox # << >>
    /\ Head(inbox).type = "SETTINGS_UPDATE"
    /\ Head(inbox).value = defaultSpecs

----------------------------------------------------------------------------
(* Properties of the settings form *)

\* MissingOrNaN: a required field is absent or holds no number
MissingOrNaN(values) ==
    \E key \in editableKeys : key \notin DOMAIN values \/ values[key] = NaN

\* RangeViolation: a value lies outside [clampMin, systemMax]
RangeViolation(values) ==
    \E key \in editableKeys :
        values[key] < defaultSpecs.clampMin \/ values[key] > defaultSpecs.systemMax

\* OrderingViolation: one of the required inequalities is broken
OrderingViolation(values) ==
    \/ values.logicLowMax >= values.logicHighMin
    \/ values.outputHighMin < values.logicHighMin
    \/ values.outputLowMax >= values.logicLowMax
    \/ values.outputHighMax < values.outputHighMin

\* clampMin <= outputLowMax < logicLowMax < logicHighMin <= outputHighMin
\*          <= outputHighMax <= systemMax
Ordered(values) ==
    /\ defaultSpecs.clampMin <= values.outputLowMax
    /\ values.outputLowMax < values.logicLowMax
    /\ values.logicLowMax < values.logicHighMin
    /\ values.logicHighMin <= values.outputHighMin
    /\ values.outputHighMin <= values.outputHighMax
    /\ values.outputHighMax <= defaultSpecs.systemMax

\* C25: whatever the form holds, validate accepts its values if and only if
\* all five are present and numeric and clampMin <= outputLowMax < logicLowMax
\* < logicHighMin <= outputHighMin <= outputHighMax <= systemMax; an accepted
\* spec has all five values in [clampMin, systemMax]; a spec with a missing or
\* non-numeric field, a value out of range or a broken inequality is
\* rejected; and the save button is disabled only on a rejected form.
ValidateAcceptsExactlyOrderedSpecs ==
    \A values \in {ValuesOf(form)} :
        \A accepted \in {Validate(values) = Null} :
            /\ accepted <=> (~MissingOrNaN(values) /\ Ordered(values))
            /\ accepted =>
                 \A key \in editableKeys :
                     /\ defaultSpecs.clampMin <= values[key]
                     /\ values[key] <= defaultSpecs.systemMax
            /\ MissingOrNaN(values) => ~accepted
            /\ (~MissingOrNaN(values) /\ RangeViolation(values)) => ~accepted
            /\ (~MissingOrNaN(values) /\ OrderingViolation(values)) => ~accepted
            /\ form.saveDisabled => ~accepted

\* the input handler has accepted a form with every inclusive limit met with
\* equality: outputLowMax on clampMin, outputHighMin on logicHighMin and
\* outputHighMax on systemMax
AcceptedOnTheLimits ==
    /\ form.fields.outputLowMax = defaultSpecs.clampMin
    /\ form.fields.logicLowMax < form.fields.logicHighMin
    /\ form.fields.outputHighMin = form.fields.logicHighMin
    /\ form.fields.outputHighMax = defaultSpecs.systemMax
    /\ Validate(ValuesOf(form)) = Null
    /\ ~form.saveDisabled
    /\ ~form.errorActive

\* C26: in every reachable state of the page and its worker, the worker's
\* VoltageSpecs holds five numbers with clampMin <= outputLowMax < logicLowMax
\* < logicHighMin <= outputHighMin <= outputHighMax <= systemMax, and the
\* limits clampMin and systemMax are those of the defaults.
WorkerSpecsAlwaysValid ==
    /\ ~MissingOrNaN(Editable(engine.specs))
    /\ Ordered(engine.specs)
    /\ engine.specs.clampMin = defaultSpecs.clampMin
    /\ engine.specs.systemMax = defaultSpecs.systemMax

\* process has discriminated a clock voltage inside the dead zone of a
\* submitted configuration, after a later submission was rejected
TickUnderSubmittedSpecs ==
    /\ step.op = "stepPhysics"
    /\ engine.specs # defaultSpecs
    /\ engine.specs.logicLowMax < step.seen.clkVoltage
    /\ step.seen.clkVoltage < engine.specs.logicHighMin
    /\ form.saveDisabled

----------------------------------------------------------------------------
(* Properties of the waveform buffer *)

\* the three channels at index i (counted from 0) hold the sample s, as
\* single-precision numbers
HoldsAt(b, i, s) ==
    /\ b.d[i + 1] = Fround(s[1])
    /\ b.clk[i + 1] = Fround(s[2])
    /\ b.q[i + 1] = Fround(s[3])

\* writePointer stays in [0, length - 1] and counts the pushes since the last
\* reset modulo length
PointerCountsPushes ==
    /\ buf.writePointer \in 0..(buf.length - 1)
    /\ buf.writePointer = Len(pushed.samples) % buf.length

\* C29 as stated: writePointer is in range and counts the pushes since the
\* last reset modulo length, and once a sample was pushed the buffer holds the
\* most recent samples in order, the oldest of them at writePointer, the three
\* channels of a sample at one index.
HoldsRecentFromPointer ==
    /\ PointerCountsPushes
    /\ LET n == Len(pushed.samples)
           m == IF n < buf.length THEN n ELSE buf.length
       IN \A k \in 0..(m - 1) :
              HoldsAt(buf, (buf.writePointer + k) % buf.length,
                      pushed.samples[n - m + 1 + k])

\* C29, amended: writePointer is in range and counts the pushes since the last
\* reset modulo length; with n pushes since the construction or last reset,
\* if n >= length the buffer holds the last length samples in order, the
\* oldest at writePointer, and if n < length the n samples are at the indices
\* 0..n-1 and every other entry, that at writePointer included, still holds
\* the fill value; the three channels of a sample are at one index.
BufferHoldsSamplesSinceReset ==
    /\ PointerCountsPushes
    /\ LET n == Len(pushed.samples)
       IN IF n >= buf.length
          THEN \A k \in 0..(buf.length - 1) :
                   HoldsAt(buf, (buf.writePointer + k) % buf.length,
                           pushed.samples[n - buf.length + 1 + k])
          ELSE /\ \A j \in 1..n : HoldsAt(buf, j - 1, pushed.samples[j])
               /\ \A i \in n..(buf.length - 1) :
                      HoldsAt(buf, i, <<pushed.fill, pushed.fill, pushed.fill>>)

\* one push more than the buffer is long: the pointer has wrapped to index 1
\* and the first sample is overwritten by the last
WrappedOverOldest ==
    /\ buf.length = 4
    /\ Len(pushed.samples) = 5
    /\ buf.writePointer = 1
    /\ pushed.samples[1] # pushed.samples[5]
    /\ HoldsAt(buf, 0, pushed.samples[5])
    /\ HoldsAt(buf, 1, pushed.samples[2])

\* buffers in use: one or two samples pushed since the construction
UsedBuffers ==
    {Push(NewBuffer(length, 0), s[1], s[2], s[3]) :
        length \in BufferLengths, s \in Samples}
    \cup
    {Push(Push(NewBuffer(length, 0), s[1], s[2], s[3]), t[1], t[2], t[3]) :
        length \in BufferLengths, s \in Samples, t \in Samples}

\* every entry of the three channels of b is the number x, and the pointer is 0
AllEntries(b, x) ==
    /\ \A i \in 1..b.length : b.d[i] = x /\ b.clk[i] = x /\ b.q[i] = x
    /\ b.writePointer = 0

\* C30 as stated: when applySettings has run, every entry of the d, clk and q
\* buffers is the number outputLowMax of the new VoltageSpecs and writePointer
\* is 0, for the engine's buffer and for any buffer in use in its place.
HistoryEqualsNewOutputLowMax ==
    [][ HandlesSettings =>
          /\ \A i \in 1..engine'.buffer.length :
                 /\ SameNumber(engine'.buffer.d[i], engine'.specs.outputLowMax)
                 /\ SameNumber(engine'.buffer.clk[i], engine'.specs.outputLowMax)
                 /\ SameNumber(engine'.buffer.q[i], engine'.specs.outputLowMax)
          /\ engine'.buffer.writePointer = 0
          /\ \A b \in UsedBuffers :
                 LET e == ApplySettings([engine EXCEPT !.buffer = b],
                                        Head(inbox).value)
                 IN  /\ \A i \in 1..b.length :
                            /\ SameNumber(e.buffer.d[i], e.specs.outputLowMax)
                            /\ SameNumber(e.buffer.clk[i], e.specs.outputLowMax)
                            /\ SameNumber(e.buffer.q[i], e.specs.outputLowMax)
                     /\ e.buffer.writePointer = 0 ]_vars

\* C30, amended: when applySettings has run, every entry of the d, clk and q
\* buffers is the new outputLowMax rounded to single precision, which is the
\* number outputLowMax only if that is a single-precision number, and
\* writePointer is 0, for the engine's buffer and for any buffer in use in its
\* place; no sample recorded before the change remains.
HistoryResetToNewBaseline ==
    [][ HandlesSettings =>
          /\ AllEntries(engine'.buffer, Fround(engine'.specs.outputLowMax))
          /\ \A b \in UsedBuffers :
                 LET e == ApplySettings([engine EXCEPT !.buffer = b],
                                        Head(inbox).value)
                 IN  /\ e.buffer.length = b.length
                     /\ AllEntries(e.buffer, Fround(e.specs.outputLowMax)) ]_vars

\* applySettings has just run after frames that recorded samples: the history
\* is back at the new baseline, which is not the number outputLowMax
HistoryClearedAfterFrames ==
    /\ frames > 1
    /\ step.op = "none"
    /\ engine.clockPhase = 0
    /\ engine.specs.outputLowMax # VoltageSpecs.outputLowMax
    /\ AllEntries(engine.buffer, Fround(engine.specs.outputLowMax))
    /\ ~SameNumber(engine.buffer.q[1], engine.specs.outputLowMax)

----------------------------------------------------------------------------
(* Properties of the whole engine *)

\* lastClkState and the three targetLogic fields of e are logic levels
LogicLevels(e) ==
    /\ e.dff.lastClkState \in {0, 1}
    /\ e.signalD.targetLogic \in {0, 1}
    /\ e.signalClk.targetLogic \in {0, 1}
    /\ e.dff.qSignal.targetLogic \in {0, 1}

\* C31: in every reachable state of the worker lastClkState and the
\* targetLogic of D, CLK and Q are 0 or 1 and the three voltages lie in
\* [clampMin, systemMax]; where the worker is about to call process, process
\* on any pair of voltages in or outside [clampMin, systemMax], with reset
\* active or not and either coin, yields levels 0 or 1 and returns Q's
\* voltage inside the range; where it is idle, update with any draw, the
\* handling of any message and a physics step of any dt do so as well.  The
\* operations are applied in the states with an empty inbox: a message not
\* yet handled has not touched the engine, so every engine state occurs with
\* an empty inbox too.
PerTickOperationsTotal ==
    /\ LogicLevels(engine)
    /\ \A s \in SignalsOf(engine) : InsideClamp(s.currentValue)
    /\ (step.op = "signals" /\ inbox = << >>) =>
         \A dVoltage \in Voltages, clkVoltage \in Voltages,
            resetActive \in BOOLEAN :
             \A coin \in Coins(engine.dff, dVoltage, clkVoltage, resetActive,
                               engine.specs) :
                 \A r \in {Process(engine.dff, dVoltage, clkVoltage,
                                   resetActive, coin, 0, 0, engine.specs)} :
                     /\ r.dff.lastClkState \in {0, 1}
                     /\ r.dff.qSignal.targetLogic \in {0, 1}
                     /\ r.ret = r.dff.qSignal.currentValue
                     /\ InsideClamp(r.ret)
    /\ (step.op = "none" /\ inbox = << >>) =>
         /\ \A s \in SignalsOf(engine), n1 \in Deviates, n2 \in Deviates :
                \A u \in {Update(s, n1, n2, engine.specs)} :
                    /\ InsideClamp(u.currentValue)
                    /\ u.targetLogic = s.targetLogic
                    /\ Len(u.noiseCache) \in {0, 1}
         /\ \A msg \in ParamMessages \cup SettingsMessages :
                LogicLevels(OnMessage(engine, msg))
         /\ \A dt \in DeltaTimes :
                \A r \in {StepPhysics(engine, dt, 0, <<0, 0>>, <<0, 0>>, <<0, 0>>)} :
                    /\ LogicLevels(r.engine)
                    /\ \A s \in SignalsOf(r.engine) : InsideClamp(s.currentValue)
                    /\ r.engine.clockPhase \in 0..TwoPi

\* a tick has run with reset active and the clock voltage in the dead zone
\* after a toggle of D: the levels are still 0 or 1
TickedInDeadZoneUnderReset ==
    /\ step.op = "stepPhysics"
    /\ step.seen.resetActive
    /\ InDeadZone(step.seen.clkVoltage)
    /\ engine.signalD.targetLogic = 1
    /\ LogicLevels(engine)

\* D is told to go high, resp. low
DHigh == engine.signalD.targetLogic = 1

DLow == engine.signalD.targetLogic = 0

\* Q is told to go high, resp. low
QHigh == engine.dff.qSignal.targetLogic = 1

QLow == engine.dff.qSignal.targetLogic = 0

\* the premises of a steady run: no noise on D and Q and none drawn for CLK,
\* reset inactive, the default voltage spec, smoothing factors and clock speed
SteadyRun ==
    /\ engine.signalD.noiseLevel = 0
    /\ engine.dff.qSignal.noiseLevel = 0
    /\ ~engine.resetActive
    /\ engine.specs = VoltageSpecs
    /\ engine.signalD.smoothingFactor = VoltageSpecs.smoothingFactor
    /\ engine.signalClk.smoothingFactor = VoltageSpecs.smoothingFactor
    /\ engine.dff.qSignal.smoothingFactor = VoltageSpecs.outputSmoothingFactor
    /\ engine.clockSpeed = Simulation.defaultSpeed * Simulation.clockSpeedFactor

\* C33: in a steady run ticking at 1/60 s, if D's targetLogic is from some
\* moment on held at 1 then Q's targetLogic is eventually 1 for ever, and if
\* D's is held at 0 then Q's is eventually 0 for ever.
QFollowsD ==
    /\ []SteadyRun
    /\ <>[]DHigh => <>[]QHigh
    /\ <>[]DLow => <>[]QLow

\* D was toggled high while the clock was high and Q has followed it at the
\* next rising edge: a tick that detected the edge with D and Q both high
QSampledHighD ==
    /\ step.op = "stepPhysics"
    /\ step.edge
    /\ step.seen.dVoltage > VoltageSpecs.logicHighMin
    /\ DHigh
    /\ QHigh


\* a call without reset that directly follows a run of reset calls
FirstAfterRun ==
    /\ call.op = "process"
    /\ ~call.resetActive
    /\ resetRun.state = "ended"

\* C34: reset calls leave lastClkState untouched, so the first call without
\* reset after a run of reset calls compares the clock against the level
\* committed before the run: with that level 0 and the clock above logicHighMin
\* it detects a rising edge and samples D, whatever the clock did during the
\* run, and with that level 1 it detects no edge and Q stays reset
EdgeComparesAgainstLevelBeforeReset ==
    /\ resetRun.state = "active" => dff.lastClkState = resetRun.before
    /\ FirstAfterRun =>
        /\ call.preLast = resetRun.before
        /\ call.preTarget = 0
        /\ (resetRun.before = 0 /\ call.clkVoltage > VoltageSpecs.logicHighMin) =>
            /\ call.edge
            /\ call.dVoltage > VoltageSpecs.logicHighMin =>
                   dff.qSignal.targetLogic = 1
            /\ call.dVoltage < VoltageSpecs.logicLowMax =>
                   dff.qSignal.targetLogic = 0
        /\ resetRun.before = 1 =>
            /\ ~call.edge
            /\ dff.qSignal.targetLogic = 0

\* the clock was high throughout the run and the call after it still saw an edge
EdgeAfterRunWithClockHigh ==
    /\ FirstAfterRun
    /\ resetRun.before = 0
    /\ resetRun.seen = "high"
    /\ call.edge
    /\ call.dVoltage > VoltageSpecs.logicHighMin
    /\ dff.qSignal.targetLogic = 1

\* the clock went low and high again during the run and no edge followed
NoEdgeAfterRunWithClockPulse ==
    /\ FirstAfterRun
    /\ resetRun.before = 1
    /\ resetRun.seen = "lowhigh"
    /\ call.clkVoltage > VoltageSpecs.logicHighMin
    /\ ~call.edge


\* the part of a signal that applySettings does not assign
KeptOfSignal(s) ==
    [ targetLogic |-> s.targetLogic, noiseLevel |-> s.noiseLevel,
      noiseCache |-> s.noiseCache, smoothingFactor |-> s.smoothingFactor ]

\* the part of the engine that applySettings does not assign
KeptOfEngine(e) ==
    [ signalD |-> KeptOfSignal(e.signalD),
      signalClk |-> KeptOfSignal(e.signalClk),
      clkBaseLow |-> e.signalClk.baseLow,
      qSignal |-> KeptOfSignal(e.dff.qSignal),
      lastClkState |-> e.dff.lastClkState,
      resetActive |-> e.resetActive,
      clockSpeed |-> e.clockSpeed,
      lastFrameTime |-> e.lastFrameTime,
      lastUiUpdateTime |-> e.lastUiUpdateTime,
      animationFrameId |-> e.animationFrameId,
      bufferLength |-> e.buffer.length,
      smoothingFactors |-> << e.specs.smoothingFactor,
                              e.specs.outputSmoothingFactor >> ]

\* C35: applySettings leaves the targetLogic of D, CLK and Q, lastClkState,
\* resetActive, clockSpeed, every noiseLevel and every smoothingFactor as they
\* were; what it changes lies within VoltageSpecs, the base levels, the three
\* currentValues, the buffer and clockPhase.
SettingsPreserveLogicState ==
    [][ HandlesSettings => KeptOfEngine(engine') = KeptOfEngine(engine) ]_vars

\* applySettings has just snapped the voltages while D targeted high, the
\* committed clock level was 1 and Q was still low
SnappedWithLogicKept ==
    /\ engine.specs.logicHighMin # VoltageSpecs.logicHighMin
    /\ engine.clockPhase = 0
    /\ step.op = "none"
    /\ engine.signalD.targetLogic = 1
    /\ engine.signalD.currentValue = engine.signalD.baseHigh
    /\ engine.dff.lastClkState = 1
    /\ engine.dff.qSignal.currentValue = engine.dff.qSignal.baseLow


\* voltages a field of the form may be given, from clampMin to systemMax
FieldLevels ==
    {VoltageSpecs.clampMin, VoltageSpecs.clampMin + 4, 0, 20, VoltageSpecs.systemMax}

\* every spec over FieldLevels that validate accepts
AcceptedSpecs == {values \in [editableKeys -> FieldLevels] : Validate(values) = Null}

\* C36: the voltages of D, CLK and Q lie in [clampMin, systemMax] in every
\* reachable state of the page and its worker: at construction, after every
\* tick and right after applySettings has snapped them, unclamped, to the base
\* levels of a spec that validate accepted; and the snap to any accepted spec
\* would leave them in that range.
VoltageRangeInEveryState ==
    /\ \A s \in SignalsOf(engine) : InsideClamp(s.currentValue)
    /\ (call.op = "submit" /\ call.err = Null /\ step.op = "none") =>
           \A values \in AcceptedSpecs :
               \A e \in {ApplySettings(engine, values)} :
                   \A s \in SignalsOf(e) : InsideClamp(s.currentValue)

\* applySettings has snapped CLK to an accepted outputHighMax equal to systemMax
ClockSnappedToSystemMax ==
    /\ step.op = "none"
    /\ engine.clockPhase = 0
    /\ engine.specs.outputHighMax = VoltageSpecs.systemMax
    /\ engine.signalClk.targetLogic = 1
    /\ engine.signalClk.currentValue = VoltageSpecs.systemMax


\* what the two engines are compared on
Observed(e) ==
    [ clockPhase |-> e.clockPhase,
      lastClkState |-> e.dff.lastClkState,
      targetLogic |-> << e.signalD.targetLogic, e.signalClk.targetLogic,
                         e.dff.qSignal.targetLogic >>,
      currentValue |-> << e.signalD.currentValue, e.signalClk.currentValue,
                          e.dff.qSignal.currentValue >> ]

\* C37: two engines started in the same state with every noiseLevel 0 and
\* given the same ticks and messages have the same clockPhase, lastClkState,
\* targetLogic and currentValue of D, CLK and Q after every tick and message,
\* whatever each draws for its noise, as long as no rising edge has sampled a
\* D voltage inside [logicLowMax, logicHighMin].
EnginesAgreeUntilUndefinedSample ==
    /\ \A e \in {engine, twin} : \A s \in SignalsOf(e) : s.noiseLevel = 0
    /\ ~sampledUndefined => Observed(engine) = Observed(twin)

\* a rising edge has just sampled a definite high D in both engines, whose
\* noise draws differed
AgreedOnSampledEdge ==
    /\ step.op = "stepPhysics"
    /\ step.edge
    /\ step.seen.dVoltage > engine.specs.logicHighMin
    /\ ~sampledUndefined
    /\ engine.dff.qSignal.targetLogic = 1
    /\ twin.dff.qSignal.targetLogic = 1
    /\ engine.signalClk.noiseCache # twin.signalClk.noiseCache

\* the two coins fell differently on an edge that sampled D in the undefined zone
DivergedOnUndefinedSample ==
    /\ sampledUndefined
    /\ engine.dff.qSignal.targetLogic # twin.dff.qSignal.targetLogic


----------------------------------------------------------------------------
(* Properties of the worker's renderer *)

\* every message has been handled and the INIT handler has finished
AllHandled == render.inbox = << >> /\ render.init = "done"

\* C38: at most one renderer is attached at any time, and once all messages
\* have been handled the attached renderer is of the mode named by the last
\* SWITCH_RENDERER message, standard if none was sent, also when
\* SWITCH_RENDERER is handled while the INIT handler awaits initRenderer.
RendererIsLastSelected ==
    /\ render.attached <= 1
    /\ AllHandled =>
           render.renderer = IF render.lastSwitch = "none" THEN "standard"
                             ELSE render.lastSwitch

\* at most one renderer is attached at any time, and exactly the current one
AtMostOneRendererAttached ==
    /\ render.attached <= 1
    /\ render.attached = IF render.renderer = "none" THEN 0 ELSE 1

\* the experimental renderer was selected during the await and the standard
\* one is attached at the end
SelectionLostToInit ==
    /\ AllHandled
    /\ render.lastSwitch = "experimental"
    /\ render.renderer = "standard"


----------------------------------------------------------------------------
(* Properties of the main thread's mirror *)

\* a toggleD message has been posted and not yet handled
ToggleInFlight == \E i \in 1..Len(inbox) : inbox[i].key = "toggleD"

\* C39: after any toggle clicks, settings updates and ticks, the worker has
\* handled the messages in the order they were sent, and whenever no toggleD
\* message is in flight the main thread's localTargetLogicD equals the
\* worker's signalD.targetLogic.
MirrorOfDConsistent ==
    /\ app.handled \o inbox = app.sent
    /\ ~ToggleInFlight => app.localTargetLogicD = engine.signalD.targetLogic

\* D was toggled high and the settings changed, both handled, and a tick
\* has run since
MirrorHighAfterSettings ==
    /\ inbox = << >>
    /\ Len(app.handled) = 2
    /\ app.handled[2].type = "SETTINGS_UPDATE"
    /\ app.localTargetLogicD = 1
    /\ engine.signalD.targetLogic = 1
    /\ step.op = "stepPhysics"

====
